---- MODULE Spec2Model ----
(***************************************************************************)
(* A model of the QuAC feature-extraction / prediction-assembly / scoring  *)
(* code of AS-ConvQA (src/quac_processors_step2_eval.py and                *)
(* src/quac_metrics.py).                                                   *)
(*                                                                         *)
(* Text is a sequence of characters, each character a one-element string   *)
(* (or a mnemonic such as "U2019" for a non-ASCII character).  Floating    *)
(* point scores are modelled by exact rationals <<num, den>>; logits by    *)
(* small integers.                                                         *)
(***************************************************************************)
EXTENDS Integers, Sequences, FiniteSets, TLC

VARIABLES
    \* --- scorer: normalize_answer applied once and twice ---
    text, norm1, norm2, npc,
    \* --- scorer: f1_score of a pair of texts ---
    prediction, ground_truth, score, single, fpc,
    \* --- example builder: the arguments of QuacExample and the object built ---
    context_text, answer_text, start_position_character, is_impossible, quac_example, epc,
    \* --- converter: the examples, the parameters, the per-example lists the
    \*     pool returns, the features returned ---
    examples, conv_cfg, pool_features, features, cpc,
    \* --- prediction assembler: the arguments of compute_predictions_logits
    \*     and what it computes ---
    all_examples, all_features, all_results, pred_par, pred_out, ppc,
    \* --- scorer: a list of references and a prediction, and what
    \*     handle_cannot, leave_one_out and leave_one_out_max make of them ---
    ref_list, ref_prediction, clean_refs, human_f1, loo_max, rpc,
    \* --- scorer: the arguments of quac_performance and its result ---
    perf_prediction, target_dict, performance, qpc,
    \* --- scorer: the arguments of write_quac (the prediction dict, the
    \*     dialogs of the input file) and the lines it writes ---
    wq_prediction, wq_target, wq_lines, wpc,
    \* --- prediction assembler: the arguments of get_final_text and its result ---
    gft_pred, gft_orig, gft_lower, gft_out, gpc,
    \* --- converter: the arguments of _improve_answer_span and its result ---
    ias_tokens, ias_start, ias_end, ias_answer, ias_out, ipc,
    \* --- converter: the worker pool of quac_convert_examples_to_features:
    \*     the arguments, each worker's tokenizer global, the chunks not yet
    \*     taken, each worker's chunk, the results sent back, the order the
    \*     chunks finished in, the indexes imap has yielded, the list
    \*     collected, the value returned ---
    pw_examples, pw_cfg, pw_tokenizer, pw_pending, pw_job, pw_results, pw_finished,
    pw_yielded, pw_out, pw_features, pwc,
    \* --- converter: the window loop of quac_convert_example_to_features, one
    \*     iteration at a time (all_doc_tokens, truncated_query, the
    \*     parameters, spans, span_doc_tokens) ---
    lp_doc, lp_query, lp_cfg, lp_spans, lp_span_doc_tokens, lpc

varsNorm == <<text, norm1, norm2, npc>>
varsF1   == <<prediction, ground_truth, score, single, fpc>>
varsEx   == <<context_text, answer_text, start_position_character, is_impossible, quac_example, epc>>
varsConv == <<examples, conv_cfg, pool_features, features, cpc>>
varsPred == <<all_examples, all_features, all_results, pred_par, pred_out, ppc>>
varsRefs == <<ref_list, ref_prediction, clean_refs, human_f1, loo_max, rpc>>
varsPerf == <<perf_prediction, target_dict, performance, qpc>>
varsWrite == <<wq_prediction, wq_target, wq_lines, wpc>>
varsFinal == <<gft_pred, gft_orig, gft_lower, gft_out, gpc>>
varsImprove == <<ias_tokens, ias_start, ias_end, ias_answer, ias_out, ipc>>
varsPool == <<pw_examples, pw_cfg, pw_tokenizer, pw_pending, pw_job, pw_results, pw_finished,
              pw_yielded, pw_out, pw_features, pwc>>
varsLoop == <<lp_doc, lp_query, lp_cfg, lp_spans, lp_span_doc_tokens, lpc>>
vars     == <<varsNorm, varsF1, varsEx, varsConv, varsPred, varsRefs, varsPerf,
              varsWrite, varsFinal, varsImprove, varsPool, varsLoop>>

None == "None"

\* An optional argument (a Python value that may be None): <<>> is None,
\* <<v>> is the value v.
Nothing    == <<>>
Some(v)    == <<v>>
IsNone(o)  == o = <<>>
ValueOf(o) == o[1]

\* the text of the null answer
NullText == <<"C", "A", "N", "N", "O", "T", "A", "N", "S", "W", "E", "R">>

(***************************************************************************)
(* Bounds of the model.                                                    *)
(***************************************************************************)
MaxStrLen == 4
MaxWords  == 2
MaxCtxLen == 4
MaxExamples == 2
MaxLogit == 2
MaxRefs == 3
MaxQuestions == 2

(***************************************************************************)
(* Characters.                                                             *)
(***************************************************************************)
\* string.punctuation (the members used by the model)
Punctuation == {".", ",", "'", "_", "-"}

\* characters str.split() and BasicTokenizer treat as white space
PyWhitespace == {" ", "TAB", "CR", "LF", "U202F"}

UpperCase == {"A", "C", "E", "N", "O", "R", "S", "T", "W"}

\* str.lower() on one character
ToLower(c) ==
    CASE c = "A" -> "a" [] c = "C" -> "c" [] c = "E" -> "e" [] c = "N" -> "n"
      [] c = "O" -> "o" [] c = "R" -> "r" [] c = "S" -> "s" [] c = "T" -> "t"
      [] c = "W" -> "w" [] OTHER -> c

Letters == UpperCase \cup {"a", "b", "c", "e", "h", "n", "o", "r", "s", "t", "w", "x"}

\* the regular expression class \w (letters, digits and the underscore)
IsWordChar(c) == c \in Letters \/ c = "_"

(***************************************************************************)
(* Generic sequence helpers.                                               *)
(***************************************************************************)
Range(f) == {f[i] : i \in DOMAIN f}

\* all sequences over S of length 0..n
SeqsUpTo(S, n) == UNION {[1..k -> S] : k \in 0..n}

RECURSIVE Flatten(_)
Flatten(ss) == IF ss = <<>> THEN <<>> ELSE Head(ss) \o Flatten(Tail(ss))

\* sep.join(parts)
RECURSIVE Join(_, _)
Join(parts, sep) ==
    IF parts = <<>> THEN <<>>
    ELSE IF Len(parts) = 1 THEN parts[1]
    ELSE parts[1] \o sep \o Join(Tail(parts), sep)

\* str.split(): the maximal runs of non-white-space characters
RECURSIVE SplitFrom(_, _, _, _)
SplitFrom(str, i, cur, acc) ==
    IF i > Len(str)
    THEN IF cur = <<>> THEN acc ELSE Append(acc, cur)
    ELSE IF str[i] \in PyWhitespace
         THEN SplitFrom(str, i + 1, <<>>, IF cur = <<>> THEN acc ELSE Append(acc, cur))
         ELSE SplitFrom(str, i + 1, Append(cur, str[i]), acc)

Split(str) == SplitFrom(str, 1, <<>>, <<>>)

(***************************************************************************)
(* normalize_answer                                                        *)
(***************************************************************************)
lower(str) == [i \in DOMAIN str |-> ToLower(str[i])]

remove_punc(str) == SelectSeq(str, LAMBDA c : c \notin Punctuation)

white_space_fix(str) == Join(Split(str), <<" ">>)

\* \b at the gap before position i (1-based) of str
WordBoundary(str, i) ==
    LET before == i > 1 /\ IsWordChar(str[i - 1])
        after  == i <= Len(str) /\ IsWordChar(str[i])
    IN  before # after

Articles == << <<"a">>, <<"a", "n">>, <<"t", "h", "e">> >>

\* the alternative of (a|an|the) the regex matches at position i, 0 if none:
\* alternatives are tried in order, each needs \b on both sides
ArticleAt(str, i) ==
    LET ok(k) == /\ i + Len(Articles[k]) - 1 <= Len(str)
                 /\ SubSeq(str, i, i + Len(Articles[k]) - 1) = Articles[k]
                 /\ WordBoundary(str, i)
                 /\ WordBoundary(str, i + Len(Articles[k]))
    IN  IF ok(1) THEN 1 ELSE IF ok(2) THEN 2 ELSE IF ok(3) THEN 3 ELSE 0

\* re.sub(r'\b(a|an|the)\b', ' ', text): leftmost non-overlapping matches
RECURSIVE RemoveArticlesFrom(_, _)
RemoveArticlesFrom(str, i) ==
    IF i > Len(str) THEN <<>>
    ELSE LET k == ArticleAt(str, i)
         IN  IF k = 0
             THEN <<str[i]>> \o RemoveArticlesFrom(str, i + 1)
             ELSE <<" ">> \o RemoveArticlesFrom(str, i + Len(Articles[k]))

remove_articles(str) == RemoveArticlesFrom(str, 1)

\* a plausible slip: white space fixed before the articles are removed
normalize_answer_ws_first(str) == remove_articles(white_space_fix(remove_punc(lower(str))))

normalize_answer(str) == white_space_fix(remove_articles(remove_punc(lower(str))))

(***************************************************************************)
(* Rationals <<n, d>>, d > 0, for the float scores.                        *)
(***************************************************************************)
RECURSIVE Gcd(_, _)
Gcd(a, b) == IF b = 0 THEN a ELSE Gcd(b, a % b)

\* the fraction n / d (d > 0) in lowest terms
Rat(n, d)    == LET g == Gcd(n, d) IN IF g = 0 THEN <<n, d>> ELSE <<n \div g, d \div g>>
RatMul(a, b) == Rat(a[1] * b[1], a[2] * b[2])
RatAdd(a, b) == Rat(a[1] * b[2] + b[1] * a[2], a[2] * b[2])
RatDiv(a, b) == Rat(a[1] * b[2], a[2] * b[1])
RatEq(a, b)  == a[1] * b[2] = b[1] * a[2]
RatLt(a, b)  == a[1] * b[2] < b[1] * a[2]
RatLe(a, b)  == a[1] * b[2] <= b[1] * a[2]
RatZero == <<0, 1>>
RatOne  == <<1, 1>>

(***************************************************************************)
(* f1_score                                                                *)
(***************************************************************************)
Count(toks, t) == Cardinality({i \in DOMAIN toks : toks[i] = t})

Min(a, b) == IF a <= b THEN a ELSE b
Max(a, b) == IF a >= b THEN a ELSE b

\* sum((Counter(p) & Counter(g)).values()), summed over the common tokens S
RECURSIVE SumCommon(_, _, _)
SumCommon(S, p, g) ==
    IF S = {} THEN 0
    ELSE LET t == CHOOSE y \in S : TRUE
         IN  Min(Count(p, t), Count(g, t)) + SumCommon(S \ {t}, p, g)

NumSame(p, g) == SumCommon(Range(p) \cap Range(g), p, g)

\* a plausible slip: the overlap counted on sets of tokens, not multisets
f1_score_set_overlap(pred, truth) ==
    LET prediction_tokens   == Split(normalize_answer(pred))
        ground_truth_tokens == Split(normalize_answer(truth))
        num_same == Cardinality(Range(prediction_tokens) \cap Range(ground_truth_tokens))
    IN  IF num_same = 0 THEN RatZero
        ELSE LET precision == Rat(num_same, Len(prediction_tokens))
                 recall    == Rat(num_same, Len(ground_truth_tokens))
             IN  RatDiv(RatMul(Rat(2, 1), RatMul(precision, recall)), RatAdd(precision, recall))

f1_score(pred, truth) ==
    LET prediction_tokens   == Split(normalize_answer(pred))
        ground_truth_tokens == Split(normalize_answer(truth))
        num_same == NumSame(prediction_tokens, ground_truth_tokens)
    IN  IF num_same = 0 THEN RatZero
        ELSE LET precision == Rat(num_same, Len(prediction_tokens))
                 recall    == Rat(num_same, Len(ground_truth_tokens))
             IN  RatDiv(RatMul(Rat(2, 1), RatMul(precision, recall)), RatAdd(precision, recall))

\* a plausible slip: the null text recognised after normalization
single_score_normalized(pred, truth) ==
    IF normalize_answer(pred) = normalize_answer(NullText)
       /\ normalize_answer(truth) = normalize_answer(NullText) THEN RatOne
    ELSE IF normalize_answer(pred) = normalize_answer(NullText)
            \/ normalize_answer(truth) = normalize_answer(NullText) THEN RatZero
    ELSE f1_score(pred, truth)

single_score(pred, truth) ==
    IF pred = NullText /\ truth = NullText THEN RatOne
    ELSE IF pred = NullText \/ truth = NullText THEN RatZero
    ELSE f1_score(pred, truth)

\* a plausible slip: a tie of null and other references is not collapsed
handle_cannot_strict(refs) ==
    LET num_cannot == Cardinality({i \in DOMAIN refs : refs[i] = NullText})
        num_spans  == Cardinality({i \in DOMAIN refs : refs[i] # NullText})
    IN  IF num_cannot > num_spans THEN <<NullText>>
        ELSE SelectSeq(refs, LAMBDA x : x # NullText)

handle_cannot(refs) ==
    LET num_cannot == Cardinality({i \in DOMAIN refs : refs[i] = NullText})
        num_spans  == Cardinality({i \in DOMAIN refs : refs[i] # NullText})
    IN  IF num_cannot >= num_spans THEN <<NullText>>
        ELSE SelectSeq(refs, LAMBDA x : x # NullText)

\* sum(scores), from 0
RECURSIVE RatSum(_)
RatSum(scores) ==
    IF scores = <<>> THEN RatZero ELSE RatAdd(Head(scores), RatSum(Tail(scores)))

\* max(scores) of a list that is not empty
RECURSIVE RatMax(_)
RatMax(scores) ==
    IF Len(scores) = 1 THEN scores[1]
    ELSE LET m == RatMax(Tail(scores))
         IN  IF RatLt(scores[1], m) THEN m ELSE scores[1]

\* a plausible slip: a reference is also compared with itself
RECURSIVE BestOtherF1_with_self(_, _, _, _)
BestOtherF1_with_self(refs, i, j, m_f1) ==
    IF j > Len(refs) THEN m_f1
    ELSE BestOtherF1_with_self(refs, i, j + 1,
             IF RatLt(m_f1, f1_score(refs[i], refs[j])) THEN f1_score(refs[i], refs[j])
             ELSE m_f1)

\* the inner loop of leave_one_out for reference i, from reference j on:
\* m_f1 is the largest f1_score(refs[i], refs[j]) so far over the j # i
RECURSIVE BestOtherF1(_, _, _, _)
BestOtherF1(refs, i, j, m_f1) ==
    IF j > Len(refs) THEN m_f1
    ELSE BestOtherF1(refs, i, j + 1,
             IF i # j /\ RatLt(m_f1, f1_score(refs[i], refs[j]))
             THEN f1_score(refs[i], refs[j])
             ELSE m_f1)

\* leave_one_out: [raised, value]; the division t_f1 / len(refs) raises
\* ZeroDivisionError for an empty list
leave_one_out(refs) ==
    IF Len(refs) = 1 THEN [raised |-> FALSE, value |-> RatOne]
    ELSE IF Len(refs) = 0 THEN [raised |-> TRUE, value |-> RatZero]
    ELSE [raised |-> FALSE,
          value |-> RatDiv(RatSum([i \in DOMAIN refs |-> BestOtherF1(refs, i, 1, RatZero)]),
                           Rat(Len(refs), 1))]

\* scores[:i] + scores[i+1:] for the i-th score (counted from 1)
AllBut(scores, i) == SubSeq(scores, 1, i - 1) \o SubSeq(scores, i + 1, Len(scores))

\* a plausible slip: no reference is held out
LeaveOneOutMean_none_left_out(scores) ==
    RatDiv(RatSum([i \in DOMAIN scores |-> RatMax(scores)]), Rat(Len(scores), 1))

\* the mean over i of the largest score with score i left out
LeaveOneOutMean(scores) ==
    RatDiv(RatSum([i \in DOMAIN scores |-> RatMax(AllBut(scores, i))]), Rat(Len(scores), 1))

\* leave_one_out_max: [raised, value]; with no ground truth the division by
\* len(t_f1) raises ZeroDivisionError
leave_one_out_max(pred, ground_truths) ==
    IF Len(ground_truths) = 1
    THEN [raised |-> FALSE, value |-> single_score(pred, ground_truths[1])]
    ELSE IF Len(ground_truths) = 0 THEN [raised |-> TRUE, value |-> RatZero]
    ELSE [raised |-> FALSE,
          value |-> LeaveOneOutMean([i \in DOMAIN ground_truths |->
                                        single_score(pred, ground_truths[i])])]

\* min_F1 = 0.4
min_F1 == Rat(2, 5)

\* a predicted span as quac_performance and write_quac read it: an empty
\* span is the null text
SpanOrNull(span) == IF Len(span) = 0 THEN NullText ELSE span

\* the loop over zip(pred, truth) of quac_performance, from pair k on:
\* all_f1 holds leave_one_out_max of the pairs kept so far
RECURSIVE ScoreAll(_, _, _, _)
ScoreAll(pred, truth, k, all_f1) ==
    IF k > Len(pred) THEN all_f1
    ELSE ScoreAll(pred, truth, k + 1,
             IF RatLt(leave_one_out(handle_cannot(truth[k])).value, min_F1) THEN all_f1
             ELSE Append(all_f1, leave_one_out_max(pred[k], handle_cannot(truth[k])).value))

\* the result of quac_performance from all_f1 (len(clean_pred) is
\* len(all_f1)): the division raises ZeroDivisionError when nothing was kept
PerformanceOf(all_f1) ==
    IF Len(all_f1) = 0 THEN [raised |-> TRUE, value |-> RatZero, all_f1 |-> all_f1]
    ELSE [raised |-> FALSE,
          value |-> RatDiv(RatMul(Rat(100, 1), RatSum(all_f1)), Rat(Len(all_f1), 1)),
          all_f1 |-> all_f1]

\* quac_performance(prediction, target_dict): preds is prediction.items(),
\* a sequence of [qa_id, span] in the order of the dict; target maps every
\* qa_id to its references
quac_performance(preds, target) ==
    PerformanceOf(ScoreAll([k \in DOMAIN preds |-> SpanOrNull(preds[k].span)],
                           [k \in DOMAIN preds |-> target[preds[k].qa_id]], 1, <<>>))

(***************************************************************************)
(* The tokenizers (external collaborators), modelled by what the code      *)
(* relies on.  BasicTokenizer: white space split, lower-casing, every      *)
(* punctuation character a token of its own.  The sub-word tokenizer:      *)
(* BasicTokenizer, then each word cut into pieces of at most PieceLen      *)
(* characters, every piece but the first marked as a continuation ("##").  *)
(***************************************************************************)
PieceLen == 6

\* BasicTokenizer's punctuation: string.punctuation and the Unicode P* classes
BasicPunctuation == Punctuation \cup {"U2019"}

\* BasicTokenizer's white space: " ", \t, \n, \r and the Unicode class Zs
BasicWhitespace == PyWhitespace \cup {"U00A0"}

\* one white-space-free word split at its punctuation characters
RECURSIVE SplitOnPunc(_, _, _, _)
SplitOnPunc(word, i, cur, acc) ==
    IF i > Len(word)
    THEN IF cur = <<>> THEN acc ELSE Append(acc, cur)
    ELSE IF word[i] \in BasicPunctuation
         THEN SplitOnPunc(word, i + 1, <<>>,
                          Append(IF cur = <<>> THEN acc ELSE Append(acc, cur), <<word[i]>>))
         ELSE SplitOnPunc(word, i + 1, Append(cur, word[i]), acc)

RECURSIVE SplitWordsOnPunc(_)
SplitWordsOnPunc(words) ==
    IF words = <<>> THEN <<>>
    ELSE SplitOnPunc(Head(words), 1, <<>>, <<>>) \o SplitWordsOnPunc(Tail(words))

\* BasicTokenizer(do_lower_case).tokenize(text)
BasicTokenize(str, do_lower_case) ==
    LET clean == [i \in DOMAIN str |-> IF str[i] \in BasicWhitespace THEN " " ELSE str[i]]
        cased == IF do_lower_case THEN lower(clean) ELSE clean
    IN  SplitWordsOnPunc(Split(cased))

\* a sub-word token: its characters, and whether it continues a word ("##")
Tok(piece, cont) == [piece |-> piece, cont |-> cont]

CLS == Tok(<<"[CLS]">>, FALSE)
SEP == Tok(<<"[SEP]">>, FALSE)
PAD == Tok(<<"[PAD]">>, FALSE)
SpecialTokens == {CLS, SEP, PAD}

RECURSIVE WordPiece(_, _)
WordPiece(word, cont) ==
    IF Len(word) <= PieceLen THEN <<Tok(word, cont)>>
    ELSE <<Tok(SubSeq(word, 1, PieceLen), cont)>>
         \o WordPiece(SubSeq(word, PieceLen + 1, Len(word)), TRUE)

RECURSIVE WordPieces(_)
WordPieces(words) ==
    IF words = <<>> THEN <<>>
    ELSE WordPiece(Head(words), FALSE) \o WordPieces(Tail(words))

\* tokenizer.tokenize(text) of a lower-casing tokenizer
Tokenize(str) == WordPieces(BasicTokenize(str, TRUE))

\* the token as the string the tokenizer prints ("##" before a continuation)
TokString(t) == IF t.cont THEN <<"#", "#">> \o t.piece ELSE t.piece
TokStrings(toks) == [i \in DOMAIN toks |-> TokString(toks[i])]

\* tokenizer.convert_tokens_to_string(tokens):
\* " ".join(tokens).replace(" ##", "").strip(); a leading "##" stays
RECURSIVE ConvertTokensToString(_)
ConvertTokensToString(toks) ==
    IF toks = <<>> THEN <<>>
    ELSE IF Len(toks) = 1 THEN TokString(toks[1])
    ELSE LET front == ConvertTokensToString(SubSeq(toks, 1, Len(toks) - 1))
             last  == toks[Len(toks)]
         IN  IF last.cont THEN front \o last.piece
             ELSE front \o <<" ">> \o last.piece

(***************************************************************************)
(* get_final_text                                                          *)
(***************************************************************************)
\* _strip_spaces: the text without its " " characters, and for each kept
\* character its position in the text (positions count from 0)
StripSpaces(str) ==
    LET keep == SelectSeq([i \in DOMAIN str |-> i], LAMBDA i : str[i] # " ")
    IN  [ns_text |-> [k \in DOMAIN keep |-> str[keep[k]]],
         ns_to_s_map |-> [k \in DOMAIN keep |-> keep[k] - 1]]

\* str.find(sub): the first position (from 0) at which sub occurs, -1 if none
Find(str, sub) ==
    LET hits == {i \in 1 .. (Len(str) - Len(sub) + 1) : SubSeq(str, i, i + Len(sub) - 1) = sub}
    IN  IF hits = {} THEN -1 ELSE (CHOOSE i \in hits : \A j \in hits : i <= j) - 1

\* a plausible slip: the end position not included in the slice
AlignedText_end_excluded(orig_text, orig, tok, start_position, end_position) ==
    LET InTok(pos) == \E k \in DOMAIN tok.ns_to_s_map : tok.ns_to_s_map[k] = pos
        NsOf(pos)  == CHOOSE k \in DOMAIN tok.ns_to_s_map : tok.ns_to_s_map[k] = pos
    IN  IF start_position = -1 THEN orig_text
        ELSE IF Len(orig.ns_text) # Len(tok.ns_text) THEN orig_text
        ELSE IF ~InTok(start_position) \/ NsOf(start_position) \notin DOMAIN orig.ns_to_s_map
             THEN orig_text
        ELSE IF ~InTok(end_position) \/ NsOf(end_position) \notin DOMAIN orig.ns_to_s_map
             THEN orig_text
        ELSE SubSeq(orig_text, orig.ns_to_s_map[NsOf(start_position)] + 1,
                               orig.ns_to_s_map[NsOf(end_position)])

\* get_final_text from the search of pred_text on: orig and tok are the
\* results of _strip_spaces on orig_text and tok_text, start_position is
\* tok_text.find(pred_text) and end_position the last position of the match;
\* tok_s_to_ns_map takes a position of tok_text to its index among the kept
\* characters
AlignedText(orig_text, orig, tok, start_position, end_position) ==
    LET InTok(pos) == \E k \in DOMAIN tok.ns_to_s_map : tok.ns_to_s_map[k] = pos
        NsOf(pos)  == CHOOSE k \in DOMAIN tok.ns_to_s_map : tok.ns_to_s_map[k] = pos
    IN  IF start_position = -1 THEN orig_text
        ELSE IF Len(orig.ns_text) # Len(tok.ns_text) THEN orig_text
        ELSE IF ~InTok(start_position) \/ NsOf(start_position) \notin DOMAIN orig.ns_to_s_map
             THEN orig_text
        ELSE IF ~InTok(end_position) \/ NsOf(end_position) \notin DOMAIN orig.ns_to_s_map
             THEN orig_text
        ELSE SubSeq(orig_text, orig.ns_to_s_map[NsOf(start_position)] + 1,
                               orig.ns_to_s_map[NsOf(end_position)] + 1)

\* get_final_text once tok_text = " ".join(tokenizer.tokenize(orig_text)) and
\* start_position = tok_text.find(pred_text) are known
ProjectText(pred_text, orig_text, tok_text, start_position) ==
    AlignedText(orig_text, StripSpaces(orig_text), StripSpaces(tok_text),
                start_position, start_position + Len(pred_text) - 1)

\* get_final_text once tok_text is known
FindInTokText(pred_text, orig_text, tok_text) ==
    ProjectText(pred_text, orig_text, tok_text, Find(tok_text, pred_text))

get_final_text(pred_text, orig_text, do_lower_case) ==
    FindInTokText(pred_text, orig_text, Join(BasicTokenize(orig_text, do_lower_case), <<" ">>))

(***************************************************************************)
(* Example Builder: QuacExample.__init__                                   *)
(***************************************************************************)
\* a plausible slip: the narrow no-break space U+202F left out
_is_whitespace_ascii_only(c) == c = " " \/ c = "TAB" \/ c = "CR" \/ c = "LF"

_is_whitespace(c) == c = " " \/ c = "TAB" \/ c = "CR" \/ c = "LF" \/ c = "U202F"

\* The scan of the context (the for loop over its characters), from character
\* i on: st = [doc_tokens, char_to_word_offset, prev_is_whitespace].
RECURSIVE ScanContext(_, _, _)
ScanContext(ctx, i, st) ==
    IF i > Len(ctx) THEN st
    ELSE LET c == ctx[i]
             toks == IF _is_whitespace(c) THEN st.doc_tokens
                     ELSE IF st.prev_is_whitespace
                          THEN Append(st.doc_tokens, <<c>>)
                          ELSE [st.doc_tokens EXCEPT ![Len(st.doc_tokens)] = Append(@, c)]
         IN  ScanContext(ctx, i + 1,
                 [doc_tokens          |-> toks,
                  char_to_word_offset |-> Append(st.char_to_word_offset, Len(toks) - 1),
                  prev_is_whitespace  |-> _is_whitespace(c)])

\* Python's list[i]: i counts from 0, a negative i counts from the end
PyInRange(seq, i) == -Len(seq) <= i /\ i < Len(seq)
PyIndex(seq, i)   == IF i >= 0 THEN seq[i + 1] ELSE seq[Len(seq) + i + 1]

\* QuacExample(...): the object built, or raised = TRUE when __init__ raises
\* (IndexError of char_to_word_offset[...], TypeError of len(None)).
\* answer and start_char are optional arguments.
QuacExample(qas_id, question, ctx, answer, start_char, impossible) ==
    LET st   == ScanContext(ctx, 1, [doc_tokens |-> <<>>, char_to_word_offset |-> <<>>,
                                     prev_is_whitespace |-> TRUE])
        c2w  == st.char_to_word_offset
        base == [qas_id |-> qas_id, question_text |-> question,
                 context_text |-> ctx, answer_text |-> answer,
                 is_impossible |-> impossible,
                 doc_tokens |-> st.doc_tokens, char_to_word_offset |-> c2w,
                 start_position |-> 0, end_position |-> 0, raised |-> FALSE]
    IN  IF ~IsNone(start_char) /\ ~impossible
        THEN IF ~PyInRange(c2w, ValueOf(start_char)) \/ IsNone(answer)
             THEN [base EXCEPT !.raised = TRUE]
             ELSE LET start    == ValueOf(start_char)
                      end_char == Min(start + Len(ValueOf(answer)) - 1, Len(c2w) - 1)
                  IN  IF ~PyInRange(c2w, end_char)
                      THEN [base EXCEPT !.start_position = PyIndex(c2w, start),
                                        !.raised = TRUE]
                      ELSE [base EXCEPT !.start_position = PyIndex(c2w, start),
                                        !.end_position   = PyIndex(c2w, end_char)]
        ELSE base

(***************************************************************************)
(* Span Windower + Feature Encoder: quac_convert_example_to_features       *)
(*                                                                         *)
(* cfg = [max_seq_length, doc_stride, max_query_length, padding_side,      *)
(* pad_is_special].                                                        *)
(* Positions count from 0 as in the code; a Python dict keyed by           *)
(* positions is a function on a set of integers.                           *)
(***************************************************************************)
\* tokenizer.model_max_length - tokenizer.max_len_single_sentence ([CLS] x [SEP])
sequence_added_tokens == 2
\* tokenizer.model_max_length - tokenizer.max_len_sentences_pair
sequence_pair_added_tokens == 3

\* Python's seq[a:b] for 0 <= a
PySlice(seq, a, b) == SubSeq(seq, a + 1, Min(b, Len(seq)))
\* Python's seq[a:] for any a
PyFrom(seq, a) ==
    IF a >= 0 THEN SubSeq(seq, a + 1, Len(seq))
    ELSE SubSeq(seq, Max(Len(seq) + a, 0) + 1, Len(seq))
\* Python's seq[:-n] for n > 0
PyDropLast(seq, n) == SubSeq(seq, 1, Len(seq) - n)

\* a plausible slip: the sub-spans scanned shortest first
_improve_answer_span_shortest_first(doc_tokens, input_start, input_end, orig_answer_text) ==
    LET tok_answer_text == Join(TokStrings(Tokenize(orig_answer_text)), <<" ">>)
        Matches == {p \in (input_start .. input_end) \X (input_start .. input_end) :
                       /\ p[1] <= p[2]
                       /\ Join(TokStrings(PySlice(doc_tokens, p[1], p[2] + 1)), <<" ">>)
                            = tok_answer_text}
    IN  IF Matches = {} THEN <<input_start, input_end>>
        ELSE CHOOSE p \in Matches :
                \A q \in Matches : p[1] < q[1] \/ (p[1] = q[1] /\ p[2] <= q[2])

\* a plausible slip: new_start scanned from input_end down
_improve_answer_span_last_start(doc_tokens, input_start, input_end, orig_answer_text) ==
    LET tok_answer_text == Join(TokStrings(Tokenize(orig_answer_text)), <<" ">>)
        Matches == {p \in (input_start .. input_end) \X (input_start .. input_end) :
                       /\ p[1] <= p[2]
                       /\ Join(TokStrings(PySlice(doc_tokens, p[1], p[2] + 1)), <<" ">>)
                            = tok_answer_text}
    IN  IF Matches = {} THEN <<input_start, input_end>>
        ELSE CHOOSE p \in Matches :
                \A q \in Matches : p[1] > q[1] \/ (p[1] = q[1] /\ p[2] >= q[2])

\* _improve_answer_span: new_start ascending, new_end descending, first match
_improve_answer_span(doc_tokens, input_start, input_end, orig_answer_text) ==
    LET tok_answer_text == Join(TokStrings(Tokenize(orig_answer_text)), <<" ">>)
        Matches == {p \in (input_start .. input_end) \X (input_start .. input_end) :
                       /\ p[1] <= p[2]
                       /\ Join(TokStrings(PySlice(doc_tokens, p[1], p[2] + 1)), <<" ">>)
                            = tok_answer_text}
    IN  IF Matches = {} THEN <<input_start, input_end>>
        ELSE CHOOSE p \in Matches :
                \A q \in Matches : p[1] < q[1] \/ (p[1] = q[1] /\ p[2] >= q[2])

\* the sub-tokens of every doc token
SubTokensOf(doc_tokens) == [i \in DOMAIN doc_tokens |-> Tokenize(doc_tokens[i])]

\* tok_to_orig_index: for every sub-token the index of its doc token
TokToOrigIndex(subs) == Flatten([i \in DOMAIN subs |-> [j \in DOMAIN subs[i] |-> i - 1]])

\* orig_to_tok_index: for every doc token the index of its first sub-token
RECURSIVE LenSum(_, _)
LenSum(subs, n) == IF n = 0 THEN 0 ELSE Len(subs[n]) + LenSum(subs, n - 1)
OrigToTokIndex(subs) == [i \in DOMAIN subs |-> LenSum(subs, i - 1)]

\* tokenizer.encode(question_text, add_special_tokens=False, truncation=True,
\*                  max_length=max_query_length)
EncodeQuery(question, max_query_length) == PySlice(Tokenize(question), 0, max_query_length)

\* a plausible slip: only the tokens cut off overflow, without the stride
TruncateDoc_no_stride(doc, query, cfg) ==
    LET total  == Len(doc) + Len(query) + sequence_pair_added_tokens
        remove == total - cfg.max_seq_length
    IN  IF remove > 0 /\ Len(doc) > remove
        THEN [kept |-> PyDropLast(doc, remove),
              overflowing_tokens |-> PyFrom(doc, -remove)]
        ELSE [kept |-> doc, overflowing_tokens |-> <<>>]

\* truncate_sequences of the document side (ONLY_SECOND for right padding,
\* ONLY_FIRST for left padding) with the stride the code passes
TruncateDoc(doc, query, cfg) ==
    LET total  == Len(doc) + Len(query) + sequence_pair_added_tokens
        remove == total - cfg.max_seq_length
        stride == cfg.max_seq_length - cfg.doc_stride - Len(query) - sequence_pair_added_tokens
    IN  IF remove > 0 /\ Len(doc) > remove
        THEN [kept |-> PyDropLast(doc, remove),
              overflowing_tokens |-> PyFrom(doc, -Min(Len(doc), stride + remove))]
        ELSE [kept |-> doc, overflowing_tokens |-> <<>>]

PadTo(n) == [i \in 1 .. Max(n, 0) |-> PAD]

\* tokenizer.encode_plus(texts, pairs, truncation, padding="max_length", ...)
EncodePlus(span_doc_tokens, query, cfg) ==
    LET tr   == TruncateDoc(span_doc_tokens, query, cfg)
        body == IF cfg.padding_side = "right"
                THEN <<CLS>> \o query \o <<SEP>> \o tr.kept \o <<SEP>>
                ELSE tr.kept \o <<SEP>> \o query \o <<SEP, CLS>>
        pad  == PadTo(cfg.max_seq_length - Len(body))
    IN  [input_ids |-> IF cfg.padding_side = "right" THEN body \o pad ELSE pad \o body,
         overflowing_tokens |-> tr.overflowing_tokens]

\* list.index(x): the first position (from 0) of x; the caller checks x is there
IndexOf(seq, x) == (CHOOSE i \in DOMAIN seq : seq[i] = x /\ \A j \in 1 .. (i - 1) : seq[j] # x) - 1

\* the input ids without their padding
NonPadded(input_ids, padding_side) ==
    IF PAD \notin Range(input_ids) THEN input_ids
    ELSE IF padding_side = "right"
         THEN PySlice(input_ids, 0, IndexOf(input_ids, PAD))
         ELSE LET last == CHOOSE i \in DOMAIN input_ids :
                              input_ids[i] = PAD /\ \A j \in (i + 1) .. Len(input_ids) : input_ids[j] # PAD
              IN  SubSeq(input_ids, last + 1, Len(input_ids))

\* One pass of the while loop body: the span built from span_doc_tokens when
\* n_spans spans exist already.
MakeSpan(all_doc_tokens, tok_to_orig_index, query, cfg, n_spans, span_doc_tokens) ==
    LET enc == EncodePlus(span_doc_tokens, query, cfg)
        paragraph_len ==
            Min(Len(all_doc_tokens) - n_spans * cfg.doc_stride,
                cfg.max_seq_length - Len(query) - sequence_pair_added_tokens)
        qlen == Len(query) + sequence_added_tokens
        Pos(i) == IF cfg.padding_side = "right" THEN qlen + i ELSE i
    IN  [input_ids |-> enc.input_ids,
         overflowing_tokens |-> enc.overflowing_tokens,
         paragraph_len |-> paragraph_len,
         tokens |-> NonPadded(enc.input_ids, cfg.padding_side),
         token_to_orig_map |->
             [idx \in {Pos(i) : i \in 0 .. (paragraph_len - 1)} |->
                 tok_to_orig_index[n_spans * cfg.doc_stride + (idx - Pos(0)) + 1]],
         truncated_query_with_special_tokens_length |-> qlen,
         start  |-> n_spans * cfg.doc_stride,
         length |-> paragraph_len]

\* a plausible slip: the loop entered while start <= len(all_doc_tokens)
LoopContinues_inclusive(n_spans, doc_stride, doc_len) == n_spans * doc_stride <= doc_len

\* while len(spans) * doc_stride < len(all_doc_tokens)
LoopContinues(n_spans, doc_stride, doc_len) == n_spans * doc_stride < doc_len

\* the while loop: spans are appended until the document is covered or no
\* token overflows
RECURSIVE SpanLoop(_, _, _, _, _, _)
SpanLoop(all_doc_tokens, tok_to_orig_index, query, cfg, spans, span_doc_tokens) ==
    IF ~LoopContinues(Len(spans), cfg.doc_stride, Len(all_doc_tokens)) THEN spans
    ELSE LET span == MakeSpan(all_doc_tokens, tok_to_orig_index, query, cfg,
                              Len(spans), span_doc_tokens)
         IN  IF span.overflowing_tokens = <<>> THEN Append(spans, span)
             ELSE SpanLoop(all_doc_tokens, tok_to_orig_index, query, cfg,
                           Append(spans, span), span.overflowing_tokens)

\* the indexes (from 1) of the spans that cover the position, and the score
\* min(left, right) + 0.01 * length of each, times 100
Covering(doc_spans, position) ==
    {k \in DOMAIN doc_spans :
        /\ position >= doc_spans[k].start
        /\ position <= doc_spans[k].start + doc_spans[k].length - 1}

ContextScore(doc_span, position) ==
    100 * Min(position - doc_span.start, doc_span.start + doc_span.length - 1 - position)
        + doc_span.length

\* a plausible slip: on equal scores the later span wins (score >= best_score)
_new_check_is_max_context_last_wins(doc_spans, cur_span_index, position) ==
    LET cov == Covering(doc_spans, position)
    IN  /\ cov # {}
        /\ cur_span_index + 1 = CHOOSE k \in cov :
               \A j \in cov :
                   \/ ContextScore(doc_spans[k], position) > ContextScore(doc_spans[j], position)
                   \/ /\ ContextScore(doc_spans[k], position) = ContextScore(doc_spans[j], position)
                      /\ k >= j

\* _new_check_is_max_context: the first span with the greatest score
_new_check_is_max_context(doc_spans, cur_span_index, position) ==
    LET cov == Covering(doc_spans, position)
    IN  /\ cov # {}
        /\ cur_span_index + 1 = CHOOSE k \in cov :
               \A j \in cov :
                   \/ ContextScore(doc_spans[k], position) > ContextScore(doc_spans[j], position)
                   \/ /\ ContextScore(doc_spans[k], position) = ContextScore(doc_spans[j], position)
                      /\ k <= j

\* token_is_max_context of span number k (from 1)
TokenIsMaxContext(spans, k, cfg) ==
    LET Pos(j) == IF cfg.padding_side = "left" THEN j
                  ELSE spans[k].truncated_query_with_special_tokens_length + j
    IN  [idx \in {Pos(j) : j \in 0 .. (spans[k].paragraph_len - 1)} |->
            _new_check_is_max_context(spans, k - 1, (k - 1) * cfg.doc_stride + (idx - Pos(0)))]

\* tokenizer.get_special_tokens_mask(ids, already_has_special_tokens=True)
\* for one id: [CLS] and [SEP] are flagged by every tokenizer; the padding
\* token is flagged by the tokenizers that build the mask from all their
\* special ids and not by those that test for [CLS] and [SEP] only
\* (cfg.pad_is_special)
IsSpecial(t, cfg) == t \in {CLS, SEP} \/ (t = PAD /\ cfg.pad_is_special)

\* np.where(span["input_ids"] == tokenizer.pad_token_id): input_ids is a
\* list, the comparison of a list with an int is False, and np.where(False)
\* has no position
PadTokenIndices(span) == {}

\* p_mask of a span: NumPy slices clip to the array
PMask(span, query, cfg) ==
    LET n    == Len(span.input_ids)
        qlen == Len(query) + sequence_added_tokens
        \* positions (from 0) the slice assignment sets to 0
        Zeroed == IF cfg.padding_side = "right"
                  THEN {i \in 0 .. (n - 1) : i >= qlen}
                  ELSE {i \in 0 .. (n - 1) :
                           /\ i >= Max(n - Len(span.tokens), 0)
                           /\ i < n - qlen}
        cls_index == IndexOf(span.input_ids, CLS)
    IN  [i \in 1 .. n |->
            IF i - 1 = cls_index THEN 0
            ELSE IF (i - 1) \in PadTokenIndices(span) \/ IsSpecial(span.input_ids[i], cfg) THEN 1
            ELSE IF (i - 1) \in Zeroed THEN 0
            ELSE 1]

\* a plausible slip: the offset of right padding used for both sides
DocOffset_right_only(query, cfg) == Len(query) + sequence_added_tokens

\* doc_offset: where the document starts in the window's token sequence
DocOffset(query, cfg) ==
    IF cfg.padding_side = "left" THEN 0 ELSE Len(query) + sequence_added_tokens

\* the feature of one span
MakeFeature(example, spans, k, query, cfg, tok_start_position, tok_end_position) ==
    LET span      == spans[k]
        cls_index == IndexOf(span.input_ids, CLS)
        doc_start == span.start
        doc_end   == span.start + span.length - 1
        out_of_span == ~(tok_start_position >= doc_start /\ tok_end_position <= doc_end)
        doc_offset  == DocOffset(query, cfg)
        answered    == ~example.is_impossible /\ ~out_of_span
    IN  [input_ids |-> span.input_ids,
         cls_index |-> cls_index,
         p_mask |-> PMask(span, query, cfg),
         example_index |-> 0,
         unique_id |-> 0,
         paragraph_len |-> span.paragraph_len,
         token_is_max_context |-> TokenIsMaxContext(spans, k, cfg),
         tokens |-> span.tokens,
         token_to_orig_map |-> span.token_to_orig_map,
         start_position |-> IF example.is_impossible THEN 0
                            ELSE IF out_of_span THEN cls_index
                            ELSE tok_start_position - doc_start + doc_offset,
         end_position |-> IF example.is_impossible THEN 0
                          ELSE IF out_of_span THEN cls_index
                          ELSE tok_end_position - doc_start + doc_offset,
         is_impossible |-> ~answered,
         qas_id |-> example.qas_id,
         query_end |-> span.truncated_query_with_special_tokens_length]

\* quac_convert_example_to_features: [raised, features]
quac_convert_example_to_features(example, cfg) ==
    LET subs == SubTokensOf(example.doc_tokens)
        all_doc_tokens    == Flatten(subs)
        tok_to_orig_index == TokToOrigIndex(subs)
        orig_to_tok_index == OrigToTokIndex(subs)
        \* whitespace_tokenize(None), orig_to_tok_index[...] out of range
        raises ==
            /\ ~example.is_impossible
            /\ \/ IsNone(example.answer_text)
               \/ ~PyInRange(orig_to_tok_index, example.start_position)
               \/ /\ example.end_position < Len(example.doc_tokens) - 1
                  /\ ~PyInRange(orig_to_tok_index, example.end_position + 1)
        tok_start == PyIndex(orig_to_tok_index, example.start_position)
        tok_end   == IF example.end_position < Len(example.doc_tokens) - 1
                     THEN PyIndex(orig_to_tok_index, example.end_position + 1) - 1
                     ELSE Len(all_doc_tokens) - 1
        improved  == IF example.is_impossible THEN <<0, 0>>
                     ELSE _improve_answer_span(all_doc_tokens, tok_start, tok_end,
                                               ValueOf(example.answer_text))
        query == EncodeQuery(example.question_text, cfg.max_query_length)
        spans == SpanLoop(all_doc_tokens, tok_to_orig_index, query, cfg, <<>>, all_doc_tokens)
    IN  IF raises THEN [raised |-> TRUE, features |-> <<>>]
        ELSE [raised |-> FALSE,
              features |-> [k \in DOMAIN spans |->
                               MakeFeature(example, spans, k, query, cfg,
                                           improved[1], improved[2])]]

\* quac_convert_examples_to_features: the pool maps the examples, in order,
\* to their feature lists (an exception of a task is raised to the caller);
\* the function returns element 0 of that list.
quac_convert_examples_to_features(exs, cfg) ==
    LET results == [i \in DOMAIN exs |-> quac_convert_example_to_features(exs[i], cfg)]
    IN  IF (\E i \in DOMAIN exs : results[i].raised) \/ exs = <<>>
        THEN [raised |-> TRUE, pool |-> <<>>, features |-> <<>>]
        ELSE [raised |-> FALSE,
              pool |-> [i \in DOMAIN exs |-> results[i].features],
              features |-> results[1].features]

(***************************************************************************)
(* Prediction Assembler: compute_predictions_logits                        *)
(*                                                                         *)
(* A result is [unique_id, start_logits, end_logits]; the class logit is   *)
(* carried by the code but read by none of its outputs and is left out.    *)
(* par = [n_best_size, max_answer_length, do_lower_case,                   *)
(*        null_score_diff_threshold, exclude_cannotanswer].                *)
(***************************************************************************)
\* score_null = 1000000  # large and positive
ScoreNullInit == 1000000
\* score_diff = 10 when the n-best list has no non-null entry
NoAnswerScoreDiff == 10

\* sorted(items, key=..., reverse=True) on items [key, val]: stable, so
\* among equal keys the earlier item comes first
RECURSIVE SortedDesc(_)
SortedDesc(items) ==
    IF items = <<>> THEN <<>>
    ELSE LET best == CHOOSE i \in DOMAIN items :
                        /\ \A j \in DOMAIN items : items[i].key >= items[j].key
                        /\ \A j \in 1 .. (i - 1) : items[j].key # items[i].key
         IN  <<items[best]>>
             \o SortedDesc(SubSeq(items, 1, best - 1) \o SubSeq(items, best + 1, Len(items)))

\* _get_best_indexes: the positions (from 0) of the n_best_size largest logits
_get_best_indexes(logits, n_best_size) ==
    LET sorted == SortedDesc([i \in DOMAIN logits |-> [key |-> logits[i], val |-> i - 1]])
    IN  [i \in 1 .. Min(n_best_size, Len(sorted)) |-> sorted[i].val]

\* unique_id_to_result[unique_id]: the last result with that unique_id
ResultOf(results, unique_id) ==
    LET hits == {i \in DOMAIN results : results[i].unique_id = unique_id}
    IN  results[CHOOSE i \in hits : \A j \in hits : j <= i]

\* a plausible slip: the max-context test left out
Discarded_no_max_context(feature, start_index, end_index, max_answer_length) ==
    \/ start_index >= Len(feature.tokens)
    \/ end_index >= Len(feature.tokens)
    \/ start_index \notin DOMAIN feature.token_to_orig_map
    \/ end_index \notin DOMAIN feature.token_to_orig_map
    \/ end_index < start_index
    \/ end_index - start_index + 1 > max_answer_length

\* the test of the inner loop: TRUE when the pair is thrown out
Discarded(feature, start_index, end_index, max_answer_length) ==
    \/ start_index >= Len(feature.tokens)
    \/ end_index >= Len(feature.tokens)
    \/ start_index \notin DOMAIN feature.token_to_orig_map
    \/ end_index \notin DOMAIN feature.token_to_orig_map
    \/ ~(start_index \in DOMAIN feature.token_is_max_context
         /\ feature.token_is_max_context[start_index])
    \/ end_index < start_index
    \/ end_index - start_index + 1 > max_answer_length

\* the candidates one feature adds to prelim_predictions, in loop order
FeaturePrelim(feature_index, feature, result, par) ==
    LET start_indexes == _get_best_indexes(result.start_logits, par.n_best_size)
        end_indexes   == _get_best_indexes(result.end_logits, par.n_best_size)
        Cand(a, b) == [feature_index |-> feature_index,
                       start_index |-> start_indexes[a], end_index |-> end_indexes[b],
                       start_logit |-> result.start_logits[start_indexes[a] + 1],
                       end_logit   |-> result.end_logits[end_indexes[b] + 1]]
    IN  Flatten([a \in DOMAIN start_indexes |->
            SelectSeq([b \in DOMAIN end_indexes |-> Cand(a, b)],
                      LAMBDA c : ~Discarded(feature, c.start_index, c.end_index,
                                            par.max_answer_length))])

\* a plausible slip: the maximum null score of the windows is tracked
RECURSIVE ScanFeatures_max_null(_, _, _, _, _)
ScanFeatures_max_null(feats, results, par, k, st) ==
    IF k > Len(feats) THEN st
    ELSE LET result == ResultOf(results, feats[k].unique_id)
             feature_null_score == result.start_logits[1] + result.end_logits[1]
             better == feature_null_score > st.score_null
         IN  ScanFeatures_max_null(feats, results, par, k + 1,
                 [prelim_predictions |->
                      st.prelim_predictions \o FeaturePrelim(k - 1, feats[k], result, par),
                  score_null |-> IF better THEN feature_null_score ELSE st.score_null,
                  min_null_feature_index |->
                      IF better THEN k - 1 ELSE st.min_null_feature_index,
                  null_start_logit |->
                      IF better THEN result.start_logits[1] ELSE st.null_start_logit,
                  null_end_logit |->
                      IF better THEN result.end_logits[1] ELSE st.null_end_logit])

\* the loop over the features of one example, from feature number k (from 1):
\* st = [prelim_predictions, score_null, min_null_feature_index,
\*       null_start_logit, null_end_logit]
RECURSIVE ScanFeatures(_, _, _, _, _)
ScanFeatures(feats, results, par, k, st) ==
    IF k > Len(feats) THEN st
    ELSE LET result == ResultOf(results, feats[k].unique_id)
             feature_null_score == result.start_logits[1] + result.end_logits[1]
             better == feature_null_score < st.score_null
         IN  ScanFeatures(feats, results, par, k + 1,
                 [prelim_predictions |->
                      st.prelim_predictions \o FeaturePrelim(k - 1, feats[k], result, par),
                  score_null |-> IF better THEN feature_null_score ELSE st.score_null,
                  min_null_feature_index |->
                      IF better THEN k - 1 ELSE st.min_null_feature_index,
                  null_start_logit |->
                      IF better THEN result.start_logits[1] ELSE st.null_start_logit,
                  null_end_logit |->
                      IF better THEN result.end_logits[1] ELSE st.null_end_logit])

\* the text of a non-null candidate
FinalText(ex, feature, pred, par) ==
    LET tok_tokens     == PySlice(feature.tokens, pred.start_index, pred.end_index + 1)
        orig_doc_start == feature.token_to_orig_map[pred.start_index]
        orig_doc_end   == feature.token_to_orig_map[pred.end_index]
        orig_tokens    == PySlice(ex.doc_tokens, orig_doc_start, orig_doc_end + 1)
        tok_text       == white_space_fix(ConvertTokensToString(tok_tokens))
        orig_text      == Join(orig_tokens, <<" ">>)
    IN  get_final_text(tok_text, orig_text, par.do_lower_case)

NbestEntry(txt, start_logit, end_logit) ==
    [text |-> txt, start_logit |-> start_logit, end_logit |-> end_logit]

\* one candidate of the walk, its text known: a span candidate (start_index
\* > 0) whose text is in seen_predictions is skipped; any other candidate
\* is appended to nbest and its text recorded
KeepPrediction(acc, pred, final_text) ==
    IF pred.start_index > 0 /\ final_text \in acc.seen_predictions THEN acc
    ELSE [acc EXCEPT !.nbest = Append(@, NbestEntry(final_text, pred.start_logit,
                                                    pred.end_logit)),
                     !.seen_predictions = @ \cup {final_text}]

\* the walk over the sorted candidates, from candidate number k (from 1):
\* acc = [nbest, seen_predictions, raised]; features[pred.feature_index]
\* raises IndexError when the example has no feature; the text of a
\* candidate with start_index 0 is the null text
RECURSIVE WalkPrelim(_, _, _, _, _, _)
WalkPrelim(ex, feats, prelim, par, k, acc) ==
    IF k > Len(prelim) \/ Len(acc.nbest) >= par.n_best_size THEN acc
    ELSE IF prelim[k].feature_index + 1 \notin DOMAIN feats
    THEN [acc EXCEPT !.raised = TRUE]
    ELSE WalkPrelim(ex, feats, prelim, par, k + 1,
             KeepPrediction(acc, prelim[k],
                 IF prelim[k].start_index > 0
                 THEN FinalText(ex, feats[prelim[k].feature_index + 1], prelim[k], par)
                 ELSE NullText))

\* best_non_null_entry: the first entry whose text is not the null text
\* (an optional value)
BestNonNull(nbest) ==
    LET hits == {i \in DOMAIN nbest : nbest[i].text # NullText}
    IN  IF hits = {} THEN Nothing
        ELSE Some(nbest[CHOOSE i \in hits : \A j \in hits : i <= j])

\* a plausible slip: the difference taken the other way round
ScoreDiff_reversed(score_null, entry) == entry.start_logit + entry.end_logit - score_null

\* score_diff when there is a non-null entry
ScoreDiff(score_null, entry) == score_null - entry.start_logit - entry.end_logit

\* the decision: the null answer is predicted
PredictNull(score_diff, threshold) == score_diff > threshold

\* prelim_predictions after the loop over the features: the synthetic null
\* candidate of the window with the smallest null score is appended and the
\* list is sorted by start_logit + end_logit, largest first
RankedPrelim(scan) ==
    LET with_null == Append(scan.prelim_predictions,
                        [feature_index |-> scan.min_null_feature_index,
                         start_index |-> 0, end_index |-> 0,
                         start_logit |-> scan.null_start_logit,
                         end_logit |-> scan.null_end_logit])
        sorted == SortedDesc([i \in DOMAIN with_null |->
                      [key |-> with_null[i].start_logit + with_null[i].end_logit,
                       val |-> with_null[i]]])
    IN  [i \in DOMAIN sorted |-> sorted[i].val]

\* nbest after the walk: a null entry is appended when none was kept, and
\* an empty list becomes one null entry with zero logits
CompletedNbest(scan, walk) ==
    LET nbest == IF NullText \notin walk.seen_predictions
                 THEN Append(walk.nbest,
                             NbestEntry(NullText, scan.null_start_logit, scan.null_end_logit))
                 ELSE walk.nbest
    IN  IF nbest = <<>> THEN <<NbestEntry(NullText, 0, 0)>> ELSE nbest

\* what the loop body leaves for one example: raised = TRUE when it raises
\* (IndexError of features[...] in the walk, AttributeError of
\* best_non_null_entry.text)
ExampleOutcome(ex, feats, par, scan, prelim, walk_raised, nbest, best_non_null_entry) ==
    LET score_diff == IF IsNone(best_non_null_entry) THEN NoAnswerScoreDiff
                      ELSE ScoreDiff(scan.score_null, ValueOf(best_non_null_entry))
        null_predicted == PredictNull(score_diff, par.null_score_diff_threshold)
        attribute_error == ~null_predicted /\ IsNone(best_non_null_entry)
    IN  [qas_id |-> ex.qas_id, n_features |-> Len(feats),
         candidates |-> scan.prelim_predictions,
         prelim_predictions |-> prelim, score_null |-> scan.score_null,
         nbest |-> IF walk_raised THEN <<>> ELSE nbest,
         has_score_diff |-> ~walk_raised,
         score_diff |-> IF walk_raised THEN 0 ELSE score_diff,
         has_prediction |-> ~walk_raised /\ ~attribute_error,
         prediction |-> IF walk_raised \/ attribute_error THEN <<>>
                        ELSE IF null_predicted THEN NullText
                        ELSE ValueOf(best_non_null_entry).text,
         raised |-> walk_raised \/ attribute_error]

\* the loop body from the n-best list on
DecideExample(ex, feats, par, scan, prelim, walk_raised, nbest) ==
    ExampleOutcome(ex, feats, par, scan, prelim, walk_raised, nbest, BestNonNull(nbest))

\* the loop body from the walk over the ranked candidates on
WalkExample(ex, feats, par, scan, prelim, walk) ==
    DecideExample(ex, feats, par, scan, prelim, walk.raised, CompletedNbest(scan, walk))

\* the loop body from the ranking on
RankExample(ex, feats, par, scan, prelim) ==
    WalkExample(ex, feats, par, scan, prelim,
                WalkPrelim(ex, feats, prelim, par, 1,
                           [nbest |-> <<>>, seen_predictions |-> {}, raised |-> FALSE]))

\* the loop body after the loop over the features
ScanExample(ex, feats, par, scan) == RankExample(ex, feats, par, scan, RankedPrelim(scan))

\* The body of the loop over the examples for one example and its features.
PredictExample(ex, feats, results, par) ==
    ScanExample(ex, feats, par,
                ScanFeatures(feats, results, par, 1,
                    [prelim_predictions |-> <<>>, score_null |-> ScoreNullInit,
                     min_null_feature_index |-> 0,
                     null_start_logit |-> 0, null_end_logit |-> 0]))

\* example_index_to_features[example_index]
FeaturesOf(fs, example_index) ==
    SelectSeq(fs, LAMBDA f : f.example_index = example_index)

\* The loop over all_examples, from example number k (from 1): done is the
\* sequence of what each example processed so far computed; the loop ends at
\* the first example that raises.
RECURSIVE PredictLoop(_, _, _, _, _, _)
PredictLoop(exs, fs, results, par, k, done) ==
    IF k > Len(exs) THEN done
    ELSE LET feats == FeaturesOf(fs, k - 1)
         IN  IF par.exclude_cannotanswer /\ feats = <<>>
             THEN PredictLoop(exs, fs, results, par, k + 1, done)
             ELSE LET r == PredictExample(exs[k], feats, results, par)
                  IN  IF r.raised THEN Append(done, r)
                      ELSE PredictLoop(exs, fs, results, par, k + 1,
                                       Append(done, r))

\* compute_predictions_logits: [raised, per_example]; all_predictions,
\* all_nbest_json and scores_diff_json are the prediction, nbest and
\* score_diff fields of per_example under their qas_id
compute_predictions_logits(exs, fs, results, par) ==
    LET done == PredictLoop(exs, fs, results, par, 1, <<>>)
    IN  [raised |-> \E i \in DOMAIN done : done[i].raised, per_example |-> done]

(***************************************************************************)
(* Inputs of the scorer.                                                   *)
(***************************************************************************)
\* the characters the strings given to normalize_answer are made of
NormAlphabet == {"a", "n", "t", "h", "e", "A", ".", " ", "TAB", "U2019"}

\* the words the reference and predicted answers are made of
ScoreWords == { <<"t", "h", "e">>, <<"e">>, <<"E", ".">>, <<"n">> }

\* the null text with a full stop: it normalizes as the null text does
NullTextStop == Append(NullText, ".")

ScoreTexts ==
    {Join(ws, <<" ">>) : ws \in SeqsUpTo(ScoreWords, MaxWords)} \cup {NullText, NullTextStop}

(***************************************************************************)
(* Specification SpecNorm: normalize_answer applied to a string, then to   *)
(* its own result.                                                         *)
(***************************************************************************)
NormIdle == text = <<>> /\ norm1 = None /\ norm2 = None /\ npc = "idle"

F1Idle ==
    /\ prediction = <<>> /\ ground_truth = <<>> /\ score = None /\ single = None
    /\ fpc = "idle"

ExIdle ==
    /\ context_text = <<>> /\ answer_text = Nothing /\ start_position_character = Nothing
    /\ is_impossible = FALSE /\ quac_example = None /\ epc = "idle"

ConvIdle ==
    /\ examples = <<>> /\ conv_cfg = None /\ pool_features = <<>> /\ features = <<>>
    /\ cpc = "idle"

PredIdle ==
    /\ all_examples = <<>> /\ all_features = <<>> /\ all_results = <<>>
    /\ pred_par = None /\ pred_out = None /\ ppc = "idle"

RefsIdle ==
    /\ ref_list = <<>> /\ ref_prediction = <<>> /\ clean_refs = None /\ human_f1 = None
    /\ loo_max = None /\ rpc = "idle"

PerfIdle ==
    /\ perf_prediction = <<>> /\ target_dict = None /\ performance = None /\ qpc = "idle"

WriteIdle ==
    /\ wq_prediction = <<>> /\ wq_target = <<>> /\ wq_lines = None /\ wpc = "idle"

FinalIdle ==
    /\ gft_pred = <<>> /\ gft_orig = <<>> /\ gft_lower = TRUE /\ gft_out = None
    /\ gpc = "idle"

ImproveIdle ==
    /\ ias_tokens = <<>> /\ ias_start = 0 /\ ias_end = 0 /\ ias_answer = <<>> /\ ias_out = None
    /\ ipc = "idle"

PoolIdle ==
    /\ pw_examples = <<>> /\ pw_cfg = None /\ pw_tokenizer = <<>> /\ pw_pending = <<>>
    /\ pw_job = <<>> /\ pw_results = <<>> /\ pw_finished = <<>> /\ pw_yielded = {}
    /\ pw_out = <<>> /\ pw_features = None /\ pwc = "idle"

LoopIdle ==
    /\ lp_doc = <<>> /\ lp_query = <<>> /\ lp_cfg = None /\ lp_spans = <<>>
    /\ lp_span_doc_tokens = <<>> /\ lpc = "idle"

InitNorm ==
    /\ text \in SeqsUpTo(NormAlphabet, MaxStrLen)
    /\ norm1 = None /\ norm2 = None /\ npc = "start"
    /\ F1Idle /\ ExIdle /\ ConvIdle /\ PredIdle /\ RefsIdle /\ PerfIdle
    /\ WriteIdle /\ FinalIdle /\ ImproveIdle /\ PoolIdle /\ LoopIdle

NormalizeAnswer ==
    /\ npc = "start"
    /\ norm1' = normalize_answer(text)
    /\ npc' = "once"
    /\ UNCHANGED <<text, norm2, varsF1, varsEx, varsConv, varsPred, varsRefs, varsPerf,
                   varsWrite, varsFinal, varsImprove, varsPool, varsLoop>>

NormalizeAgain ==
    /\ npc = "once"
    /\ norm2' = normalize_answer(norm1)
    /\ npc' = "twice"
    /\ UNCHANGED <<text, norm1, varsF1, varsEx, varsConv, varsPred, varsRefs, varsPerf,
                   varsWrite, varsFinal, varsImprove, varsPool, varsLoop>>

NextNorm == NormalizeAnswer \/ NormalizeAgain

SpecNorm == InitNorm /\ [][NextNorm]_vars

(***************************************************************************)
(* Specification SpecF1: f1_score of a predicted and a reference text.     *)
(***************************************************************************)
InitF1 ==
    /\ prediction \in ScoreTexts
    /\ ground_truth \in ScoreTexts
    /\ score = None /\ single = None /\ fpc = "start"
    /\ NormIdle /\ ExIdle /\ ConvIdle /\ PredIdle /\ RefsIdle /\ PerfIdle
    /\ WriteIdle /\ FinalIdle /\ ImproveIdle /\ PoolIdle /\ LoopIdle

F1Score ==
    /\ fpc = "start"
    /\ score' = f1_score(prediction, ground_truth)
    /\ fpc' = "done"
    /\ UNCHANGED <<prediction, ground_truth, single, varsNorm, varsEx, varsConv, varsPred, varsRefs, varsPerf,
                   varsWrite, varsFinal, varsImprove, varsPool, varsLoop>>

SingleScore ==
    /\ fpc = "done"
    /\ single' = single_score(prediction, ground_truth)
    /\ fpc' = "scored"
    /\ UNCHANGED <<prediction, ground_truth, score, varsNorm, varsEx, varsConv, varsPred, varsRefs, varsPerf,
                   varsWrite, varsFinal, varsImprove, varsPool, varsLoop>>

NextF1 == F1Score \/ SingleScore

SpecF1 == InitF1 /\ [][NextF1]_vars

(***************************************************************************)
(* Specification SpecExample: one QuacExample is constructed.              *)
(***************************************************************************)
\* the characters of a context: two letters and the white space characters
CtxAlphabet == {"a", "b", " ", "TAB", "U202F"}

\* answer texts of a record: None (no annotation), empty, one or two characters
AnswerTexts == {Nothing, Some(<<>>), Some(<<"a">>), Some(<<"a", "b">>)}

InitExample ==
    /\ context_text \in SeqsUpTo(CtxAlphabet, MaxCtxLen)
    /\ answer_text \in AnswerTexts
    /\ start_position_character \in {Nothing} \cup {Some(i) : i \in -1 .. MaxCtxLen}
    /\ is_impossible \in BOOLEAN
    /\ quac_example = None /\ epc = "start"
    /\ NormIdle /\ F1Idle /\ ConvIdle /\ PredIdle /\ RefsIdle /\ PerfIdle
    /\ WriteIdle /\ FinalIdle /\ ImproveIdle /\ PoolIdle /\ LoopIdle

NewQuacExample ==
    /\ epc = "start"
    /\ quac_example' = QuacExample("q", <<"a">>, context_text, answer_text, start_position_character,
                              is_impossible)
    /\ epc' = IF quac_example'.raised THEN "raised" ELSE "built"
    /\ UNCHANGED <<context_text, answer_text, start_position_character, is_impossible,
                   varsNorm, varsF1, varsConv, varsPred, varsRefs, varsPerf,
                   varsWrite, varsFinal, varsImprove, varsPool, varsLoop>>

NextExample == NewQuacExample

SpecExample == InitExample /\ [][NextExample]_vars

(***************************************************************************)
(* Specification SpecConv: a list of examples is converted to features.    *)
(***************************************************************************)
\* the raw records the examples are built from:
\* [context, answer, start_char, impossible]
Records ==
    { \* "ab E. CANNOTANSWER", answer "E" at 3: five sub-tokens
      [context |-> <<"a", "b", " ", "E", ".", " ">> \o NullText,
       answer |-> <<"E">>, start_char |-> 3, impossible |-> FALSE],
      \* "ab E. CANNOTANSWER", answer "E." at 3: the sub-tokens "e" and "."
      [context |-> <<"a", "b", " ", "E", ".", " ">> \o NullText,
       answer |-> <<"E", ".">>, start_char |-> 3, impossible |-> FALSE],
      \* "ab", answer "ab" at 0: one sub-token
      [context |-> <<"a", "b">>,
       answer |-> <<"a", "b">>, start_char |-> 0, impossible |-> FALSE],
      \* "ab CANNOTANSWER", the null answer: three sub-tokens
      [context |-> <<"a", "b", " ">> \o NullText,
       answer |-> NullText, start_char |-> 3, impossible |-> TRUE],
      \* an empty context, the null answer: no sub-token
      [context |-> <<>>,
       answer |-> NullText, start_char |-> 0, impossible |-> TRUE] }

Question == <<"a">>

\* the example of a record; its qas_id is its place in the input
ExampleOf(rec, id) ==
    QuacExample(id, Question, rec.context, Some(rec.answer), Some(rec.start_char), rec.impossible)

Configs ==
    [max_seq_length : {6, 7}, doc_stride : {1, 2, 3}, max_query_length : {1},
     padding_side : {"right", "left"}, pad_is_special : BOOLEAN]

InitConv ==
    /\ \E n \in 1 .. MaxExamples : \E recs \in [1 .. n -> Records] :
          examples = [i \in 1 .. n |-> ExampleOf(recs[i], i)]
    /\ conv_cfg \in Configs
    /\ pool_features = <<>> /\ features = <<>> /\ cpc = "start"
    /\ NormIdle /\ F1Idle /\ ExIdle /\ PredIdle /\ RefsIdle /\ PerfIdle
    /\ WriteIdle /\ FinalIdle /\ ImproveIdle /\ PoolIdle /\ LoopIdle

ConvertExamples ==
    /\ cpc = "start"
    /\ LET r == quac_convert_examples_to_features(examples, conv_cfg)
       IN  /\ pool_features' = r.pool
           /\ features' = r.features
           /\ cpc' = IF r.raised THEN "raised" ELSE "done"
    /\ UNCHANGED <<examples, conv_cfg, varsNorm, varsF1, varsEx, varsPred, varsRefs, varsPerf,
                   varsWrite, varsFinal, varsImprove, varsPool, varsLoop>>

NextConv == ConvertExamples

SpecConv == InitConv /\ [][NextConv]_vars

(***************************************************************************)
(* Specification SpecPred: compute_predictions_logits is run on a list of  *)
(* examples, their features and one result per feature.                    *)
(***************************************************************************)
\* the lists of records the examples come from
PredScenarios ==
    LET two_windows == [context |-> <<"a", "b", " ">> \o NullText,
                        answer |-> NullText, start_char |-> 3, impossible |-> TRUE]
        one_window  == [context |-> <<"a", "b">>,
                        answer |-> <<"a", "b">>, start_char |-> 0, impossible |-> FALSE]
        no_window   == [context |-> <<>>,
                        answer |-> NullText, start_char |-> 0, impossible |-> TRUE]
    IN  { <<two_windows>>, <<one_window>>, <<no_window>>, <<one_window, no_window>> }

\* the converter parameters of the features: room for two document tokens
PredConfigs ==
    [max_seq_length : {6}, doc_stride : {1}, max_query_length : {1},
     padding_side : {"right", "left"}, pad_is_special : {TRUE}]

\* unique_id = 1000000000: the first unique_id of the numbering
FirstUniqueId == 1000000000

\* the numbering of the features (the loop "add example index and unique
\* id", disabled in quac_convert_examples_to_features) that
\* compute_predictions_logits reads: the features of an example carry its
\* example_index, counted over the examples that have features, and every
\* feature its own unique_id
RECURSIVE NumberedFeatures(_, _, _, _, _)
NumberedFeatures(pool, k, unique_id, example_index, new_features) ==
    IF k > Len(pool) THEN new_features
    ELSE IF pool[k] = <<>>
    THEN NumberedFeatures(pool, k + 1, unique_id, example_index, new_features)
    ELSE NumberedFeatures(pool, k + 1, unique_id + Len(pool[k]), example_index + 1,
             new_features \o [i \in DOMAIN pool[k] |->
                                 [pool[k][i] EXCEPT !.example_index = example_index,
                                                    !.unique_id = unique_id + i - 1]])

\* a logit vector of a feature: zero at position 0, high at position peak
\* (no such position when peak = -1), 1 at the other document positions
\* and 0 elsewhere
LogitVector(feature, zero, peak, high) ==
    [i \in 1 .. Len(feature.input_ids) |->
        IF i = 1 THEN zero
        ELSE IF i - 1 = peak THEN high
        ELSE IF (i - 1) \in DOMAIN feature.token_to_orig_map THEN 1 ELSE 0]

\* QuacResult(unique_id, start_logits, end_logits) of a feature: the logits
\* of position 0 are free, and at most one document position of one of the
\* two vectors has a logit above 1
ResultsFor(feature) ==
    LET docs == {i \in DOMAIN feature.token_to_orig_map : i > 0}
        Res(s, e) == [unique_id |-> feature.unique_id, start_logits |-> s, end_logits |-> e]
    IN  UNION {
          {Res(LogitVector(feature, s0, -1, 1), LogitVector(feature, e0, -1, 1))}
          \cup {Res(LogitVector(feature, s0, peak, high), LogitVector(feature, e0, -1, 1)) :
                   peak \in docs, high \in 2 .. MaxLogit}
          \cup {Res(LogitVector(feature, s0, -1, 1), LogitVector(feature, e0, peak, high)) :
                   peak \in docs, high \in 2 .. MaxLogit}
          : s0 \in 0 .. MaxLogit, e0 \in 0 .. MaxLogit }

\* all_results: one result per feature, in the order of the features
RECURSIVE ResultLists(_)
ResultLists(fs) ==
    IF fs = <<>> THEN {<<>>}
    ELSE {<<r>> \o rest : r \in ResultsFor(Head(fs)), rest \in ResultLists(Tail(fs))}

PredParams ==
    [n_best_size : {1, 2, 4}, max_answer_length : {1, 2}, do_lower_case : {TRUE},
     null_score_diff_threshold : {0, NoAnswerScoreDiff}, exclude_cannotanswer : BOOLEAN]

InitPred ==
    /\ \E recs \in PredScenarios, cfg \in PredConfigs :
          LET exs  == [i \in DOMAIN recs |-> ExampleOf(recs[i], i)]
              conv == quac_convert_examples_to_features(exs, cfg)
          IN  /\ all_examples = exs
              /\ all_features \in {conv.features, NumberedFeatures(conv.pool, 1, FirstUniqueId, 0, <<>>)}
    /\ all_results \in ResultLists(all_features)
    /\ pred_par \in PredParams
    /\ \/ ~pred_par.exclude_cannotanswer
       \/ \E k \in DOMAIN all_examples : FeaturesOf(all_features, k - 1) = <<>>
    /\ pred_out = None /\ ppc = "start"
    /\ NormIdle /\ F1Idle /\ ExIdle /\ ConvIdle /\ RefsIdle /\ PerfIdle
    /\ WriteIdle /\ FinalIdle /\ ImproveIdle /\ PoolIdle /\ LoopIdle

ComputePredictionsLogits ==
    /\ ppc = "start"
    /\ LET r == compute_predictions_logits(all_examples, all_features, all_results, pred_par)
       IN  /\ pred_out' = r.per_example
           /\ ppc' = IF r.raised THEN "raised" ELSE "done"
    /\ UNCHANGED <<all_examples, all_features, all_results, pred_par,
                   varsNorm, varsF1, varsEx, varsConv, varsRefs, varsPerf,
                   varsWrite, varsFinal, varsImprove, varsPool, varsLoop>>

NextPred == ComputePredictionsLogits

SpecPred == InitPred /\ [][NextPred]_vars

(***************************************************************************)
(* Specification SpecRefs: handle_cannot, leave_one_out and                *)
(* leave_one_out_max are applied to a list of references (and a            *)
(* prediction).                                                            *)
(***************************************************************************)
\* the texts of the references and of the prediction: the null text, one
\* and two tokens, and a text whose normalized form is empty
RefTexts == {NullText, <<"e">>, <<"n">>, <<"e", " ", "n">>, <<"t", "h", "e">>}

InitRefs ==
    /\ ref_list \in SeqsUpTo(RefTexts, MaxRefs)
    /\ ref_prediction \in RefTexts
    /\ clean_refs = None /\ human_f1 = None /\ loo_max = None /\ rpc = "start"
    /\ NormIdle /\ F1Idle /\ ExIdle /\ ConvIdle /\ PredIdle /\ PerfIdle
    /\ WriteIdle /\ FinalIdle /\ ImproveIdle /\ PoolIdle /\ LoopIdle

HandleCannot ==
    /\ rpc = "start"
    /\ clean_refs' = handle_cannot(ref_list)
    /\ rpc' = "cleaned"
    /\ UNCHANGED <<ref_list, ref_prediction, human_f1, loo_max,
                   varsNorm, varsF1, varsEx, varsConv, varsPred, varsPerf,
                   varsWrite, varsFinal, varsImprove, varsPool, varsLoop>>

LeaveOneOut ==
    /\ rpc = "cleaned"
    /\ human_f1' = leave_one_out(ref_list)
    /\ rpc' = "agreed"
    /\ UNCHANGED <<ref_list, ref_prediction, clean_refs, loo_max,
                   varsNorm, varsF1, varsEx, varsConv, varsPred, varsPerf,
                   varsWrite, varsFinal, varsImprove, varsPool, varsLoop>>

LeaveOneOutMax ==
    /\ rpc = "agreed"
    /\ loo_max' = leave_one_out_max(ref_prediction, ref_list)
    /\ rpc' = "scored"
    /\ UNCHANGED <<ref_list, ref_prediction, clean_refs, human_f1,
                   varsNorm, varsF1, varsEx, varsConv, varsPred, varsPerf,
                   varsWrite, varsFinal, varsImprove, varsPool, varsLoop>>

NextRefs == HandleCannot \/ LeaveOneOut \/ LeaveOneOutMax

SpecRefs == InitRefs /\ [][NextRefs]_vars

(***************************************************************************)
(* Specification SpecPerf: quac_performance scores a dict of predictions   *)
(* against the references of the same questions.                           *)
(***************************************************************************)
\* the id of turn t of dialog d, "<d>_q#<t>", as its three parts
QaId(d, t) == <<d, "_q#", ToString(t)>>

\* qa_id.split("_q#")[0]
DialogOf(qa_id) ==
    IF Find(qa_id, <<"_q#">>) = -1 THEN qa_id
    ELSE SubSeq(qa_id, 1, Find(qa_id, <<"_q#">>))

\* the predicted spans: empty, the null text, one token
PerfSpans == {<<>>, NullText, <<"e">>, <<"n">>}

\* the reference lists of a question: unanimous, disagreeing (agreement 0),
\* overlapping (agreement 2/3), a tie of null and span, a majority
PerfRefLists ==
    { <<NullText>>, << <<"e">> >>, << <<"e">>, <<"n">> >>,
      << <<"e">>, <<"e", " ", "n">> >>, << NullText, <<"e">> >>,
      << <<"e">>, <<"e">>, <<"n">> >> }

InitPerf ==
    /\ \E n \in 0 .. MaxQuestions :
          LET ids == {QaId("C", t) : t \in 1 .. n}
          IN  /\ perf_prediction \in
                    [1 .. n -> [qa_id : ids, span : PerfSpans]]
              /\ \A k \in 1 .. n : perf_prediction[k].qa_id = QaId("C", k)
              /\ target_dict \in [ids -> PerfRefLists]
    /\ performance = None /\ qpc = "start"
    /\ NormIdle /\ F1Idle /\ ExIdle /\ ConvIdle /\ PredIdle /\ RefsIdle
    /\ WriteIdle /\ FinalIdle /\ ImproveIdle /\ PoolIdle /\ LoopIdle

QuacPerformance ==
    /\ qpc = "start"
    /\ performance' = quac_performance(perf_prediction, target_dict)
    /\ qpc' = IF performance'.raised THEN "raised" ELSE "done"
    /\ UNCHANGED <<perf_prediction, target_dict,
                   varsNorm, varsF1, varsEx, varsConv, varsPred, varsRefs,
                   varsWrite, varsFinal, varsImprove, varsPool, varsLoop>>

NextPerf == QuacPerformance

SpecPerf == InitPerf /\ [][NextPerf]_vars

(***************************************************************************)
(* write_quac: the dialog-grouped output.  A dict is a sequence of its     *)
(* entries in insertion order; dialog_pred maps a dialog id to the list of *)
(* its [qa_id, span] pairs.  The input file is the sequence of its         *)
(* paragraphs [id, qas], qas the list of the question ids.                 *)
(***************************************************************************)
MaxDialogs == 2
MaxTurns == 2

\* dialog_id in dialog_pred
HasDialog(dialog_pred, dialog_id) ==
    \E k \in DOMAIN dialog_pred : dialog_pred[k].dialog_id = dialog_id

\* dialog_pred[dialog_id].append(item) on a defaultdict(list)
AppendToDialog(dialog_pred, dialog_id, item) ==
    IF HasDialog(dialog_pred, dialog_id)
    THEN [k \in DOMAIN dialog_pred |->
             IF dialog_pred[k].dialog_id = dialog_id
             THEN [dialog_pred[k] EXCEPT !.spans = Append(@, item)]
             ELSE dialog_pred[k]]
    ELSE Append(dialog_pred, [dialog_id |-> dialog_id, spans |-> <<item>>])

\* for qa_id, span in prediction.items(): from entry k on
RECURSIVE GroupPredictions(_, _, _)
GroupPredictions(preds, k, dialog_pred) ==
    IF k > Len(preds) THEN dialog_pred
    ELSE GroupPredictions(preds, k + 1,
             AppendToDialog(dialog_pred, DialogOf(preds[k].qa_id),
                            [qa_id |-> preds[k].qa_id,
                             span  |-> SpanOrNull(preds[k].span)]))

\* for qa in qa_list: dialog_pred[dialog_id].append([qa_id, 'CANNOTANSWER'])
RECURSIVE FillDialog(_, _, _, _)
FillDialog(dialog_id, qa_list, k, dialog_pred) ==
    IF k > Len(qa_list) THEN dialog_pred
    ELSE FillDialog(dialog_id, qa_list, k + 1,
             AppendToDialog(dialog_pred, dialog_id,
                            [qa_id |-> qa_list[k], span |-> NullText]))

\* the loop over the paragraphs of the input file, from paragraph k on:
\* only a dialog that is not in dialog_pred is filled
RECURSIVE FillMissing(_, _, _)
FillMissing(target, k, dialog_pred) ==
    IF k > Len(target) THEN dialog_pred
    ELSE FillMissing(target, k + 1,
             IF ~HasDialog(dialog_pred, target[k].id)
             THEN FillDialog(target[k].id, target[k].qas, 1, dialog_pred)
             ELSE dialog_pred)

\* the line written for one dialog
OutputDict(dialog_span) ==
    [best_span_str |-> [k \in DOMAIN dialog_span |-> dialog_span[k].span],
     qid           |-> [k \in DOMAIN dialog_span |-> dialog_span[k].qa_id],
     yesno         |-> [k \in DOMAIN dialog_span |-> "y"],
     followup      |-> [k \in DOMAIN dialog_span |-> "y"]]

\* write_quac(prediction, nbest_pred, in_file, out_file): the lines of out_file
write_quac(preds, target) ==
    LET dialog_pred == FillMissing(target, 1, GroupPredictions(preds, 1, <<>>))
    IN  [k \in DOMAIN dialog_pred |-> OutputDict(dialog_pred[k].spans)]

(***************************************************************************)
(* Specification SpecWrite: write_quac writes the predictions of some of   *)
(* the questions of an input file.                                         *)
(***************************************************************************)
\* the predicted spans: empty, or one token
WriteSpans == {<<>>, <<"e">>}

\* the input files: one or two dialogs of one or two turns each
WriteTargets ==
    UNION { [1 .. n -> {[id |-> <<d>>, qas |-> [t \in 1 .. m |-> QaId(d, t)]] :
                           d \in {"C", "D"}, m \in 1 .. MaxTurns}]
            : n \in 1 .. MaxDialogs }

\* the question ids of an input file, in file order
RECURSIVE QuestionIds(_)
QuestionIds(target) ==
    IF target = <<>> THEN <<>> ELSE Head(target).qas \o QuestionIds(Tail(target))

\* the prediction dicts over a list of ids: each id is left out, or has a span
RECURSIVE PredictionsOver(_)
PredictionsOver(ids) ==
    IF ids = <<>> THEN {<<>>}
    ELSE LET rest == PredictionsOver(Tail(ids))
         IN  rest \cup {<<[qa_id |-> Head(ids), span |-> sp]>> \o r :
                            sp \in WriteSpans, r \in rest}

InitWrite ==
    /\ wq_target \in WriteTargets
    /\ \A i, j \in DOMAIN wq_target : i # j => wq_target[i].id # wq_target[j].id
    /\ wq_prediction \in PredictionsOver(QuestionIds(wq_target))
    /\ wq_lines = None /\ wpc = "start"
    /\ NormIdle /\ F1Idle /\ ExIdle /\ ConvIdle /\ PredIdle /\ RefsIdle /\ PerfIdle
    /\ FinalIdle /\ ImproveIdle /\ PoolIdle /\ LoopIdle

WriteQuac ==
    /\ wpc = "start"
    /\ wq_lines' = write_quac(wq_prediction, wq_target)
    /\ wpc' = "done"
    /\ UNCHANGED <<wq_prediction, wq_target,
                   varsNorm, varsF1, varsEx, varsConv, varsPred, varsRefs, varsPerf,
                   varsFinal, varsImprove, varsPool, varsLoop>>

NextWrite == WriteQuac

SpecWrite == InitWrite /\ [][NextWrite]_vars

(***************************************************************************)
(* Specification SpecFinal: get_final_text projects a predicted text onto  *)
(* an original text.                                                       *)
(***************************************************************************)
MaxOrigLen == 3
MaxPredLen == 3

\* the original texts: a letter, a capital, a punctuation mark, a space and
\* a no-break space
OrigAlphabet == {"a", "E", ".", " ", "U00A0"}

\* the predicted texts: what the tokenizer can make of the original texts
PredAlphabet == {"a", "e", "E", ".", " "}

InitFinal ==
    /\ gft_orig \in SeqsUpTo(OrigAlphabet, MaxOrigLen)
    /\ gft_pred \in SeqsUpTo(PredAlphabet, MaxPredLen)
    /\ gft_lower \in BOOLEAN
    /\ gft_out = None /\ gpc = "start"
    /\ NormIdle /\ F1Idle /\ ExIdle /\ ConvIdle /\ PredIdle /\ RefsIdle /\ PerfIdle
    /\ WriteIdle /\ ImproveIdle /\ PoolIdle /\ LoopIdle

GetFinalText ==
    /\ gpc = "start"
    /\ gft_out' = get_final_text(gft_pred, gft_orig, gft_lower)
    /\ gpc' = "done"
    /\ UNCHANGED <<gft_pred, gft_orig, gft_lower,
                   varsNorm, varsF1, varsEx, varsConv, varsPred, varsRefs, varsPerf,
                   varsWrite, varsImprove, varsPool, varsLoop>>

NextFinal == GetFinalText

SpecFinal == InitFinal /\ [][NextFinal]_vars

(***************************************************************************)
(* Specification SpecImprove: _improve_answer_span narrows a span of       *)
(* sub-tokens to the tokens of the answer text.                            *)
(***************************************************************************)
MaxDocChars == 4
MaxAnswerChars == 3

ImproveAlphabet == {"a", ".", " "}

InitImprove ==
    /\ ias_tokens \in {Tokenize(d) : d \in SeqsUpTo(ImproveAlphabet, MaxDocChars)}
    /\ ias_tokens # <<>>
    /\ ias_start \in 0 .. (Len(ias_tokens) - 1)
    /\ ias_end \in ias_start .. (Len(ias_tokens) - 1)
    /\ ias_answer \in SeqsUpTo(ImproveAlphabet, MaxAnswerChars)
    /\ ias_out = None /\ ipc = "start"
    /\ NormIdle /\ F1Idle /\ ExIdle /\ ConvIdle /\ PredIdle /\ RefsIdle /\ PerfIdle
    /\ WriteIdle /\ FinalIdle /\ PoolIdle /\ LoopIdle

ImproveAnswerSpan ==
    /\ ipc = "start"
    /\ ias_out' = _improve_answer_span(ias_tokens, ias_start, ias_end, ias_answer)
    /\ ipc' = "done"
    /\ UNCHANGED <<ias_tokens, ias_start, ias_end, ias_answer,
                   varsNorm, varsF1, varsEx, varsConv, varsPred, varsRefs, varsPerf,
                   varsWrite, varsFinal, varsPool, varsLoop>>

NextImprove == ImproveAnswerSpan

SpecImprove == InitImprove /\ [][NextImprove]_vars

(***************************************************************************)
(* Specification SpecPool: quac_convert_examples_to_features as the pool   *)
(* runs it.  Every worker is a process of its own; its initializer stores  *)
(* the tokenizer in the worker's global.  p.imap cuts the examples into    *)
(* chunks; an idle worker takes the next chunk, converts its examples in   *)
(* order and sends the results back; imap yields the results in the order  *)
(* of the examples.  The chunks hold ChunkSize examples (the code passes   *)
(* chunksize=32; the model uses short chunks so that several are in        *)
(* flight).                                                                *)
(***************************************************************************)
MaxWorkers == 2
MaxPoolExamples == 3
ChunkSize == 2

TokenizerHandle == "tokenizer_for_convert"

\* the records of the pool's examples: five sub-tokens, and one
PoolRecords ==
    { [context |-> <<"a", "b", " ", "E", ".", " ">> \o NullText,
       answer |-> <<"E">>, start_char |-> 3, impossible |-> FALSE],
      [context |-> <<"a", "b">>,
       answer |-> <<"a", "b">>, start_char |-> 0, impossible |-> FALSE] }

PoolConfigs ==
    [max_seq_length : {6}, doc_stride : {2}, max_query_length : {1},
     padding_side : {"right", "left"}, pad_is_special : {TRUE}]

\* the chunks of n examples: chunk c holds the indexes (from 1) of its examples
ChunksOf(n) ==
    [c \in 1 .. ((n + ChunkSize - 1) \div ChunkSize) |->
        [id |-> c,
         tasks |-> [j \in 1 .. Min(ChunkSize, n - (c - 1) * ChunkSize) |->
                       (c - 1) * ChunkSize + j]]]

\* a plausible slip: the results yielded as they arrive (imap_unordered)
Yieldable_unordered(results, yielded) == (DOMAIN results) \ yielded

\* the indexes imap can yield next: the first one not yet yielded, once its
\* result has arrived
Yieldable(results, yielded) ==
    {i \in (DOMAIN results) \ yielded : \A j \in 1 .. (i - 1) : j \in yielded}

InitPool ==
    /\ \E n \in 1 .. MaxPoolExamples : \E recs \in [1 .. n -> PoolRecords] :
          /\ pw_examples = [i \in 1 .. n |-> ExampleOf(recs[i], i)]
          /\ pw_pending = ChunksOf(n)
    /\ pw_cfg \in PoolConfigs
    /\ \E threads \in 1 .. MaxWorkers :
          /\ pw_tokenizer = [w \in 1 .. threads |-> None]
          /\ pw_job = [w \in 1 .. threads |-> Nothing]
    /\ pw_results = <<>> /\ pw_finished = <<>> /\ pw_yielded = {} /\ pw_out = <<>>
    /\ pw_features = None /\ pwc = "running"
    /\ NormIdle /\ F1Idle /\ ExIdle /\ ConvIdle /\ PredIdle /\ RefsIdle /\ PerfIdle
    /\ WriteIdle /\ FinalIdle /\ ImproveIdle /\ LoopIdle

\* quac_convert_example_to_features_init in worker w
WorkerInit(w) ==
    /\ pwc = "running"
    /\ pw_tokenizer[w] = None
    /\ pw_tokenizer' = [pw_tokenizer EXCEPT ![w] = TokenizerHandle]
    /\ UNCHANGED <<pw_examples, pw_cfg, pw_pending, pw_job, pw_results, pw_finished,
                   pw_yielded, pw_out, pw_features, pwc,
                   varsNorm, varsF1, varsEx, varsConv, varsPred, varsRefs, varsPerf,
                   varsWrite, varsFinal, varsImprove, varsLoop>>

\* worker w, initialized and idle, takes the next chunk
TakeChunk(w) ==
    /\ pwc = "running"
    /\ pw_tokenizer[w] # None
    /\ IsNone(pw_job[w])
    /\ pw_pending # <<>>
    /\ pw_job' = [pw_job EXCEPT ![w] = Some(Head(pw_pending))]
    /\ pw_pending' = Tail(pw_pending)
    /\ UNCHANGED <<pw_examples, pw_cfg, pw_tokenizer, pw_results, pw_finished,
                   pw_yielded, pw_out, pw_features, pwc,
                   varsNorm, varsF1, varsEx, varsConv, varsPred, varsRefs, varsPerf,
                   varsWrite, varsFinal, varsImprove, varsLoop>>

\* worker w converts the examples of its chunk, each from the example and
\* the parameters of the partial, and sends the results back
RunChunk(w) ==
    /\ pwc = "running"
    /\ ~IsNone(pw_job[w])
    /\ pw_results' =
           [i \in Range(ValueOf(pw_job[w]).tasks) |->
               quac_convert_example_to_features(pw_examples[i], pw_cfg)] @@ pw_results
    /\ pw_finished' = Append(pw_finished, ValueOf(pw_job[w]).id)
    /\ pw_job' = [pw_job EXCEPT ![w] = Nothing]
    /\ UNCHANGED <<pw_examples, pw_cfg, pw_tokenizer, pw_pending,
                   pw_yielded, pw_out, pw_features, pwc,
                   varsNorm, varsF1, varsEx, varsConv, varsPred, varsRefs, varsPerf,
                   varsWrite, varsFinal, varsImprove, varsLoop>>

\* list(p.imap(...)) receives the next result; the exception of a task is
\* raised to the caller
Collect ==
    /\ pwc = "running"
    /\ \E i \in Yieldable(pw_results, pw_yielded) :
          /\ pw_yielded' = pw_yielded \cup {i}
          /\ IF pw_results[i].raised
             THEN pw_out' = pw_out /\ pwc' = "raised"
             ELSE pw_out' = Append(pw_out, pw_results[i].features) /\ pwc' = pwc
    /\ UNCHANGED <<pw_examples, pw_cfg, pw_tokenizer, pw_pending, pw_job, pw_results,
                   pw_finished, pw_features,
                   varsNorm, varsF1, varsEx, varsConv, varsPred, varsRefs, varsPerf,
                   varsWrite, varsFinal, varsImprove, varsLoop>>

\* the list is complete: features = features[0] and the return
Return ==
    /\ pwc = "running"
    /\ Len(pw_out) = Len(pw_examples)
    /\ pw_features' = pw_out[1]
    /\ pwc' = "done"
    /\ UNCHANGED <<pw_examples, pw_cfg, pw_tokenizer, pw_pending, pw_job, pw_results,
                   pw_finished, pw_yielded, pw_out,
                   varsNorm, varsF1, varsEx, varsConv, varsPred, varsRefs, varsPerf,
                   varsWrite, varsFinal, varsImprove, varsLoop>>

NextPool ==
    \/ \E w \in DOMAIN pw_tokenizer : WorkerInit(w)
    \/ \E w \in DOMAIN pw_tokenizer : TakeChunk(w)
    \/ \E w \in DOMAIN pw_tokenizer : RunChunk(w)
    \/ Collect
    \/ Return

SpecPool == InitPool /\ [][NextPool]_vars

(***************************************************************************)
(* Specification SpecLoop: the window loop of                              *)
(* quac_convert_example_to_features, one iteration per step.               *)
(***************************************************************************)
MaxDocTokens == 5

\* a document of n sub-tokens; sub-token i comes from doc token i
DocOfLen(n) == [i \in 1 .. n |-> Tok(<<"a">>, FALSE)]

LoopConfigs ==
    [max_seq_length : {5, 6, 7}, doc_stride : {1, 2, 3}, max_query_length : {1},
     padding_side : {"right", "left"}, pad_is_special : {TRUE}]

InitLoop ==
    /\ \E n \in 0 .. MaxDocTokens : lp_doc = DocOfLen(n)
    /\ lp_query = <<Tok(<<"a">>, FALSE)>>
    /\ lp_cfg \in LoopConfigs
    /\ lp_spans = <<>>
    /\ lp_span_doc_tokens = lp_doc
    /\ lpc = "loop"
    /\ NormIdle /\ F1Idle /\ ExIdle /\ ConvIdle /\ PredIdle /\ RefsIdle /\ PerfIdle
    /\ WriteIdle /\ FinalIdle /\ ImproveIdle /\ PoolIdle

\* the test of the while loop fails
LoopExit ==
    /\ lpc = "loop"
    /\ ~LoopContinues(Len(lp_spans), lp_cfg.doc_stride, Len(lp_doc))
    /\ lpc' = "done"
    /\ UNCHANGED <<lp_doc, lp_query, lp_cfg, lp_spans, lp_span_doc_tokens,
                   varsNorm, varsF1, varsEx, varsConv, varsPred, varsRefs, varsPerf,
                   varsWrite, varsFinal, varsImprove, varsPool>>

\* one iteration: a span is built and appended; the loop is left when no
\* token overflows
LoopIteration ==
    /\ lpc = "loop"
    /\ LoopContinues(Len(lp_spans), lp_cfg.doc_stride, Len(lp_doc))
    /\ LET span == MakeSpan(lp_doc, [i \in DOMAIN lp_doc |-> i - 1], lp_query, lp_cfg,
                            Len(lp_spans), lp_span_doc_tokens)
       IN  /\ lp_spans' = Append(lp_spans, span)
           /\ IF span.overflowing_tokens = <<>>
              THEN lpc' = "done" /\ lp_span_doc_tokens' = lp_span_doc_tokens
              ELSE lpc' = "loop" /\ lp_span_doc_tokens' = span.overflowing_tokens
    /\ UNCHANGED <<lp_doc, lp_query, lp_cfg,
                   varsNorm, varsF1, varsEx, varsConv, varsPred, varsRefs, varsPerf,
                   varsWrite, varsFinal, varsImprove, varsPool>>

NextLoop == LoopExit \/ LoopIteration

SpecLoop == InitLoop /\ [][NextLoop]_vars

\* the interpreter runs the loop: a step that can be taken is taken
SpecLoopFair == SpecLoop /\ WF_vars(NextLoop)

(***************************************************************************)
(* Claims about the scorer.                                                *)
(***************************************************************************)
NormTokens(str) == Range(Split(normalize_answer(str)))

\* C9 (as stated): f1_score(x, x) = 1.0 for every non-empty string x, and
\* f1_score(a, b) = 0 whenever the normalized token sets of a and b are
\* disjoint.
C9_Original ==
    fpc = "done" =>
        /\ (prediction = ground_truth /\ prediction # <<>>) => RatEq(score, RatOne)
        /\ (NormTokens(prediction) \cap NormTokens(ground_truth) = {}) => RatEq(score, RatZero)

\* C9 (amended): f1_score(x, x) = 1.0 for every string x whose normalized
\* form has at least one token (a string of articles, punctuation or white
\* space only scores 0 against itself), and f1_score(a, b) = 0 whenever the
\* normalized token sets of a and b are disjoint.
C9_F1Boundary ==
    fpc = "done" =>
        /\ (prediction = ground_truth /\ NormTokens(prediction) # {}) => RatEq(score, RatOne)
        /\ (NormTokens(prediction) \cap NormTokens(ground_truth) = {}) => RatEq(score, RatZero)

\* C9 witness: f1_score has scored a text with a repeated token against itself
C9_Witness ==
    /\ fpc = "done"
    /\ prediction = ground_truth
    /\ prediction = <<"e", " ", "e">>
    /\ RatEq(score, RatOne)

\* C11: single_score is 1.0 when both texts are exactly "CANNOTANSWER", 0.0
\* when exactly one of them is, and f1_score of the two texts otherwise;
\* the test is on the texts as given, not on their normalized forms.
C11_SingleScore ==
    fpc = "scored" =>
        /\ (prediction = NullText /\ ground_truth = NullText) => RatEq(single, RatOne)
        /\ ((prediction = NullText) # (ground_truth = NullText)) => RatEq(single, RatZero)
        /\ (prediction # NullText /\ ground_truth # NullText) => single = score

\* C11 witness: a text that normalizes as "CANNOTANSWER" does, but is not
\* that text, was scored 0 against "CANNOTANSWER" although their F1 is 1
C11_Witness ==
    /\ fpc = "scored"
    /\ prediction = NullTextStop
    /\ ground_truth = NullText
    /\ RatEq(score, RatOne)
    /\ RatEq(single, RatZero)

\* C10: normalize_answer is idempotent: normalize_answer(normalize_answer(s))
\* = normalize_answer(s) for every string s.
C10_Idempotent == npc = "twice" => norm2 = norm1

\* C10 witness: a string from which case, punctuation, an article and white
\* space were all removed has been normalized twice
C10_Witness ==
    /\ npc = "twice"
    /\ text = <<"A", ".", " ", "e">>
    /\ norm1 = <<"e">>

\* the references of ref_list that are the null text, and the others
NullRefs == {i \in DOMAIN ref_list : ref_list[i] = NullText}
SpanRefs == {i \in DOMAIN ref_list : ref_list[i] # NullText}

\* C12: handle_cannot gives ["CANNOTANSWER"] when the references equal to
\* "CANNOTANSWER" are at least as many as the others (the tie and the empty
\* list included), and otherwise the references without the "CANNOTANSWER"
\* ones, in their order and multiplicity.
C12_HandleCannot ==
    rpc \in {"cleaned", "agreed", "scored"} =>
        IF Cardinality(NullRefs) >= Cardinality(SpanRefs)
        THEN clean_refs = <<NullText>>
        ELSE /\ Len(clean_refs) = Cardinality(SpanRefs)
             /\ \A k \in DOMAIN clean_refs :
                   \E i \in SpanRefs :
                      /\ Cardinality({j \in SpanRefs : j <= i}) = k
                      /\ clean_refs[k] = ref_list[i]

\* C12 witness: a tie of one null and one other reference was collapsed
C12_Witness ==
    /\ rpc = "cleaned"
    /\ ref_list = <<NullText, <<"e">> >>
    /\ clean_refs = <<NullText>>

\* the largest of a set of scores that is not empty
LargestOf(S) == CHOOSE m \in S : \A x \in S : RatLe(x, m)

\* the mean of the values pick(i) over the references i of ref_list
MeanOverRefs(pick) ==
    RatDiv(RatSum([i \in DOMAIN ref_list |-> pick[i]]), Rat(Len(ref_list), 1))

\* C13: leave_one_out of two or more references is the mean over every
\* reference i of the largest f1_score(refs[i], refs[j]) over the j # i,
\* and 1.0 for one reference; so it is above 0 when some two references
\* share a normalized token and 0 when they are pairwise token-disjoint.
C13_LeaveOneOut ==
    rpc \in {"agreed", "scored"} =>
        /\ Len(ref_list) = 1 => (~human_f1.raised /\ RatEq(human_f1.value, RatOne))
        /\ Len(ref_list) >= 2 =>
              /\ ~human_f1.raised
              /\ RatEq(human_f1.value,
                       MeanOverRefs([i \in DOMAIN ref_list |->
                           LargestOf({f1_score(ref_list[i], ref_list[j]) :
                                         j \in DOMAIN ref_list \ {i}})]))
              /\ (\E i, j \in DOMAIN ref_list :
                     i # j /\ NormTokens(ref_list[i]) \cap NormTokens(ref_list[j]) # {})
                     => RatLt(RatZero, human_f1.value)
              /\ (\A i, j \in DOMAIN ref_list :
                     i # j => NormTokens(ref_list[i]) \cap NormTokens(ref_list[j]) = {})
                     => RatEq(human_f1.value, RatZero)

\* C13 witness: three references of which two share a token and the third
\* shares none scored 2/3
C13_Witness ==
    /\ rpc = "agreed"
    /\ ref_list = << <<"e">>, <<"e">>, <<"n">> >>
    /\ RatEq(human_f1.value, Rat(2, 3))

\* the single scores of the prediction against the references
SingleScores == [j \in DOMAIN ref_list |-> single_score(ref_prediction, ref_list[j])]

CleanTruth(k) == handle_cannot(target_dict[perf_prediction[k].qa_id])

\* the predictions whose cleaned references agree to 0.4 or more
ScoredPredictions ==
    {k \in DOMAIN perf_prediction : RatLe(min_F1, leave_one_out(CleanTruth(k)).value)}

\* the sum over a set of predictions of leave_one_out_max, an empty span
\* read as "CANNOTANSWER"
RECURSIVE SumOfScores(_)
SumOfScores(S) ==
    IF S = {} THEN RatZero
    ELSE LET k == CHOOSE x \in S : TRUE
         IN  RatAdd(leave_one_out_max(IF perf_prediction[k].span = <<>> THEN NullText
                                      ELSE perf_prediction[k].span, CleanTruth(k)).value,
                    SumOfScores(S \ {k}))

TokTextOf(str, do_lower_case) == Join(BasicTokenize(str, do_lower_case), <<" ">>)

\* sub is a contiguous substring of str
IsSubstring(sub, str) ==
    \E i \in 1 .. (Len(str) + 1) : \E j \in (i - 1) .. Len(str) : sub = SubSeq(str, i, j)

\* the result is a substring of the original text that the tokenizer
\* renders as the predicted text
RoundTrip ==
    /\ IsSubstring(gft_out, gft_orig)
    /\ TokTextOf(gft_out, gft_lower) = gft_pred

\* the predicted text, itself in tokenized form, appears in the tokenized
\* original text
Appears ==
    /\ gft_pred # <<>>
    /\ TokTextOf(gft_pred, gft_lower) = gft_pred
    /\ Find(TokTextOf(gft_orig, gft_lower), gft_pred) # -1

\* position pos (from 0) of str holds a character other than " "
Kept(str, pos) == pos >= 0 /\ pos < Len(str) /\ str[pos + 1] # " "

\* the predicted text is found, the two texts have the same number of
\* characters other than " ", and the first and last position of the match
\* hold such a character
Aligned ==
    LET tok_text == TokTextOf(gft_orig, gft_lower)
        start    == Find(tok_text, gft_pred)
    IN  /\ start # -1
        /\ Len(StripSpaces(gft_orig).ns_text) = Len(StripSpaces(tok_text).ns_text)
        /\ Kept(tok_text, start)
        /\ Kept(tok_text, start + Len(gft_pred) - 1)

\* C16 as stated: whenever the predicted text appears, modulo white space
\* and case, in the original text, the result is a substring of the original
\* text whose tokenized form is the predicted text; in every other case the
\* result is the original text.
C16_Original ==
    gpc = "done" => IF Appears THEN RoundTrip ELSE gft_out = gft_orig

\* C16, amended: when the predicted text is found in the tokenized original
\* text, both texts have as many characters other than " ", and the match
\* starts and ends on such a character, the result is a substring of the
\* original text whose tokenized form is the predicted text; in every other
\* case the result is the original text unchanged.
C16_RoundTrip ==
    gpc = "done" => IF Aligned THEN RoundTrip ELSE gft_out = gft_orig

\* "e ." is projected onto "aE." as "E.": case and spacing of the original
C16_Witness ==
    /\ gpc = "done"
    /\ gft_lower
    /\ gft_orig = <<"a", "E", ".">>
    /\ gft_pred = <<"e", " ", ".">>
    /\ gft_out = <<"E", ".">>

(***************************************************************************)
(* Claims about write_quac.                                                *)
(***************************************************************************)
\* the span the prediction dict holds for a question id, if any
PredictedSpan(qa_id) ==
    IF \E k \in DOMAIN wq_prediction : wq_prediction[k].qa_id = qa_id
    THEN Some(wq_prediction[CHOOSE k \in DOMAIN wq_prediction :
                                wq_prediction[k].qa_id = qa_id].span)
    ELSE Nothing

\* the places <<line, position>> of the output where a question id is written
PlacesOf(qa_id) ==
    {p \in (DOMAIN wq_lines) \X (1 .. MaxTurns) :
        p[2] \in DOMAIN wq_lines[p[1]].qid /\ wq_lines[p[1]].qid[p[2]] = qa_id}

\* the text expected for a question id: its predicted span, or the null
\* text when it has none or an empty one
ExpectedSpan(qa_id) ==
    IF IsNone(PredictedSpan(qa_id)) \/ PredictedSpan(qa_id) = Some(<<>>)
    THEN NullText ELSE ValueOf(PredictedSpan(qa_id))

\* C19: write_quac writes one line per dialog of the input file, and every
\* question id of the file appears exactly once, in the line of its dialog,
\* with its predicted span, or with CANNOTANSWER when the prediction has no
\* entry or an empty string for it, also when other turns of the dialog were
\* predicted.
C19_WriteQuac ==
    wpc = "done" =>
        /\ Len(wq_lines) = Len(wq_target)
        /\ \A d \in DOMAIN wq_target : \A t \in DOMAIN wq_target[d].qas :
              LET qa_id == wq_target[d].qas[t]
              IN  /\ Cardinality(PlacesOf(qa_id)) = 1
                  /\ \A p \in PlacesOf(qa_id) :
                        /\ \A j \in DOMAIN wq_lines[p[1]].qid :
                              DialogOf(wq_lines[p[1]].qid[j]) = wq_target[d].id
                        /\ wq_lines[p[1]].best_span_str[p[2]] = ExpectedSpan(qa_id)

\* a dialog without any prediction is filled with the null text for both its
\* turns, next to a dialog that was predicted in full
C19_Witness ==
    /\ wpc = "done"
    /\ Len(wq_target) = 2 /\ Len(wq_lines) = 2
    /\ \E d \in DOMAIN wq_target :
          /\ Len(wq_target[d].qas) = 2
          /\ \A t \in 1 .. 2 : IsNone(PredictedSpan(wq_target[d].qas[t]))
          /\ \E l \in DOMAIN wq_lines :
                /\ wq_lines[l].qid = wq_target[d].qas
                /\ wq_lines[l].best_span_str = <<NullText, NullText>>
    /\ \E d \in DOMAIN wq_target :
          \A t \in DOMAIN wq_target[d].qas : ~IsNone(PredictedSpan(wq_target[d].qas[t]))

(***************************************************************************)
(* Claims about compute_predictions_logits.                                *)
(***************************************************************************)
\* the features of the example a per-example record of pred_out is about
WindowsOf(r) == FeaturesOf(all_features, r.qas_id - 1)

\* the null score start_logits[0] + end_logits[0] of a window
NullScore(feature) ==
    LET res == ResultOf(all_results, feature.unique_id)
    IN  res.start_logits[1] + res.end_logits[1]

\* start_logit + end_logit of the spans of a window: every pair of document
\* positions (start, end) with start <= end, the pair (0, 0) excepted
SpanScores(feature) ==
    LET res  == ResultOf(all_results, feature.unique_id)
        docs == DOMAIN feature.token_to_orig_map
    IN  {res.start_logits[i + 1] + res.end_logits[j + 1] :
            <<i, j>> \in {p \in docs \X docs : p[1] <= p[2] /\ p # <<0, 0>>}}

\* the minimum over the windows of an example of the null score
MinNullScore(windows) ==
    CHOOSE m \in {NullScore(windows[i]) : i \in DOMAIN windows} :
        \A i \in DOMAIN windows : m <= NullScore(windows[i])

NonNullEntries(nbest) == {i \in DOMAIN nbest : nbest[i].text # NullText}

\* C1 (as stated): for every example with one or more windows, if in every
\* window the null score is strictly greater than start_logit + end_logit
\* of every span of that window, then with null_score_diff_threshold = 0
\* the prediction is "CANNOTANSWER".
C1_Original ==
    ppc \in {"done", "raised"} =>
        \A k \in DOMAIN pred_out :
            LET windows == WindowsOf(pred_out[k])
            IN  (/\ pred_par.null_score_diff_threshold = 0
                 /\ windows # <<>>
                 /\ \A i \in DOMAIN windows :
                       \A c \in SpanScores(windows[i]) : NullScore(windows[i]) > c)
                => /\ pred_out[k].has_prediction
                   /\ pred_out[k].prediction = NullText

\* C1 (amended): for every example with one or more windows, if the minimum
\* over its windows of the null score is strictly greater than start_logit
\* + end_logit of every span of every one of its windows, then with
\* null_score_diff_threshold = 0 the prediction is "CANNOTANSWER".
C1_NullDominant ==
    ppc \in {"done", "raised"} =>
        \A k \in DOMAIN pred_out :
            LET windows == WindowsOf(pred_out[k])
            IN  (/\ pred_par.null_score_diff_threshold = 0
                 /\ windows # <<>>
                 /\ \A i \in DOMAIN windows :
                       \A c \in SpanScores(windows[i]) : MinNullScore(windows) > c)
                => /\ pred_out[k].has_prediction
                   /\ pred_out[k].prediction = NullText

\* C1 witness: an example of two windows with different null scores, the
\* smaller above every span, was predicted "CANNOTANSWER" with threshold 0
\* although its n-best list has a span entry
C1_Witness ==
    /\ ppc = "done"
    /\ pred_par.null_score_diff_threshold = 0
    /\ Len(pred_out) = 1
    /\ LET windows == WindowsOf(pred_out[1])
       IN  /\ Len(windows) = 2
           /\ NullScore(windows[1]) # NullScore(windows[2])
           /\ \A i \in DOMAIN windows :
                 \A c \in SpanScores(windows[i]) : MinNullScore(windows) > c
    /\ NonNullEntries(pred_out[1].nbest) # {}
    /\ pred_out[1].prediction = NullText

\* C2: when the n-best list of an example has a non-null entry, score_diff
\* is (the minimum over the windows of the null score) minus the start and
\* end logit of the first non-null entry in rank order, and the prediction
\* is "CANNOTANSWER" if score_diff > null_score_diff_threshold and the text
\* of that entry otherwise.
C2_DecisionRule ==
    ppc \in {"done", "raised"} =>
        \A k \in DOMAIN pred_out :
            LET r    == pred_out[k]
                hits == NonNullEntries(r.nbest)
                best_non_null == r.nbest[CHOOSE i \in hits : \A j \in hits : i <= j]
            IN  hits # {} =>
                   /\ r.has_score_diff
                   /\ r.score_diff = MinNullScore(WindowsOf(r))
                                       - best_non_null.start_logit - best_non_null.end_logit
                   /\ r.has_prediction
                   /\ r.prediction = IF r.score_diff > pred_par.null_score_diff_threshold
                                     THEN NullText ELSE best_non_null.text

\* C2 witness: an example of two windows with different null scores whose
\* first non-null entry is not the first entry, and whose score_diff equals
\* the threshold, was predicted the text of that entry
C2_Witness ==
    /\ ppc = "done"
    /\ Len(pred_out) = 1
    /\ LET windows == WindowsOf(pred_out[1])
       IN  /\ Len(windows) = 2
           /\ NullScore(windows[1]) # NullScore(windows[2])
    /\ Len(pred_out[1].nbest) >= 2
    /\ pred_out[1].nbest[1].text = NullText
    /\ pred_out[1].nbest[2].text # NullText
    /\ pred_out[1].score_diff = pred_par.null_score_diff_threshold
    /\ pred_out[1].prediction = pred_out[1].nbest[2].text

\* C3: when the n-best list of an example has no non-null entry, score_diff
\* is 10 and the prediction is "CANNOTANSWER" for every threshold, and no
\* error is raised.
C3_ForcedNull ==
    ppc \in {"done", "raised"} =>
        \A k \in DOMAIN pred_out :
            LET r == pred_out[k]
            IN  (r.nbest # <<>> /\ NonNullEntries(r.nbest) = {})
                => /\ r.has_score_diff /\ r.score_diff = NoAnswerScoreDiff
                   /\ ~r.raised
                   /\ r.has_prediction /\ r.prediction = NullText

\* C3 witness: an example without a non-null entry was predicted
\* "CANNOTANSWER" with score_diff 10
C3_Witness ==
    /\ ppc = "done"
    /\ \E k \in DOMAIN pred_out :
          /\ pred_out[k].nbest # <<>> /\ NonNullEntries(pred_out[k].nbest) = {}
          /\ pred_out[k].score_diff = NoAnswerScoreDiff
          /\ pred_out[k].prediction = NullText

\* C4: no two entries of the n-best list of an example have the same text,
\* the text "CANNOTANSWER" included.
C4_DistinctTexts ==
    ppc \in {"done", "raised"} =>
        \A k \in DOMAIN pred_out :
            \A i, j \in DOMAIN pred_out[k].nbest :
                i # j => pred_out[k].nbest[i].text # pred_out[k].nbest[j].text

\* C4 witness: a span candidate whose text was already kept was skipped
C4_Witness ==
    /\ ppc = "done"
    /\ \E k \in DOMAIN pred_out :
          /\ Len(pred_out[k].prelim_predictions) > Len(pred_out[k].nbest)
          /\ Len(pred_out[k].nbest) < pred_par.n_best_size
          /\ NonNullEntries(pred_out[k].nbest) # {}

\* C5: for every example that is not skipped the n-best list is not empty
\* and has an entry with text "CANNOTANSWER", and when no span candidate
\* was kept for the example the list is one null entry with start_logit =
\* end_logit = 0.
C5_NbestHasNull ==
    ppc \in {"done", "raised"} =>
        \A e \in DOMAIN all_examples :
            (~pred_par.exclude_cannotanswer \/ FeaturesOf(all_features, e - 1) # <<>>)
            => \E k \in DOMAIN pred_out :
                  /\ pred_out[k].qas_id = e
                  /\ pred_out[k].nbest # <<>>
                  /\ \E i \in DOMAIN pred_out[k].nbest : pred_out[k].nbest[i].text = NullText
                  /\ pred_out[k].candidates = <<>>
                        => pred_out[k].nbest = <<NbestEntry(NullText, 0, 0)>>

\* C5 witness: the walk kept no null entry and one was appended
C5_Witness ==
    /\ ppc = "done"
    /\ \E k \in DOMAIN pred_out :
          LET r == pred_out[k]
          IN  /\ Len(r.nbest) = pred_par.n_best_size + 1
              /\ r.nbest[Len(r.nbest)].text = NullText
              /\ \A i \in 1 .. pred_par.n_best_size : r.nbest[i].text # NullText

\* the positions (from 0) among the n largest logits: fewer than n
\* positions come before it, a position coming before another when its logit
\* is greater, or equal and the position smaller
TopIndexes(logits, n) ==
    {i \in 0 .. (Len(logits) - 1) :
        Cardinality({j \in 0 .. (Len(logits) - 1) :
                        \/ logits[j + 1] > logits[i + 1]
                        \/ logits[j + 1] = logits[i + 1] /\ j < i}) < n}

\* the pair (start, end) is a valid span of the window
ValidSpan(feature, start_index, end_index) ==
    /\ start_index < Len(feature.tokens)
    /\ end_index < Len(feature.tokens)
    /\ start_index \in DOMAIN feature.token_to_orig_map
    /\ end_index \in DOMAIN feature.token_to_orig_map
    /\ start_index \in DOMAIN feature.token_is_max_context
    /\ feature.token_is_max_context[start_index]
    /\ start_index <= end_index
    /\ end_index - start_index + 1 <= pred_par.max_answer_length

\* the pairs (start, end) kept for window k (from 1) of an example
KeptPairs(r, k) ==
    {<<r.candidates[c].start_index, r.candidates[c].end_index>> :
        c \in {c \in DOMAIN r.candidates : r.candidates[c].feature_index = k - 1}}

\* the pairs drawn from the top n_best_size start and end indexes of a window
DrawnPairs(feature) ==
    TopIndexes(ResultOf(all_results, feature.unique_id).start_logits, pred_par.n_best_size)
        \X TopIndexes(ResultOf(all_results, feature.unique_id).end_logits, pred_par.n_best_size)

\* C24: the span candidates kept for a window are exactly the pairs drawn
\* from its top n_best_size start and end indexes whose indexes are below the
\* number of real tokens and keys of token_to_orig_map, whose start is
\* max-context in the window, with start <= end and a length of at most
\* max_answer_length.
C24_Candidates ==
    ppc # "start" =>
        \A e \in DOMAIN pred_out :
            /\ \A c \in DOMAIN pred_out[e].candidates :
                  pred_out[e].candidates[c].feature_index + 1 \in DOMAIN WindowsOf(pred_out[e])
            /\ \A k \in DOMAIN WindowsOf(pred_out[e]) :
                  KeptPairs(pred_out[e], k)
                      = {p \in DrawnPairs(WindowsOf(pred_out[e])[k]) :
                            ValidSpan(WindowsOf(pred_out[e])[k], p[1], p[2])}

\* an example with a window whose drawn pair is thrown out for its length
\* and a window with a kept candidate and a drawn pair thrown out because
\* the window is not max-context for its start
C24_Witness ==
    /\ ppc = "done"
    /\ \E e \in DOMAIN pred_out : \E k, l \in DOMAIN WindowsOf(pred_out[e]) :
          LET f == WindowsOf(pred_out[e])[k]
              g == WindowsOf(pred_out[e])[l]
          IN  /\ KeptPairs(pred_out[e], k) # {}
              /\ \E p \in DrawnPairs(f) :
                    /\ p[1] \in DOMAIN f.token_to_orig_map /\ p[2] \in DOMAIN f.token_to_orig_map
                    /\ ~f.token_is_max_context[p[1]]
                    /\ p[1] <= p[2]
              /\ \E p \in DrawnPairs(g) :
                    /\ p[1] \in DOMAIN g.token_to_orig_map /\ p[2] \in DOMAIN g.token_to_orig_map
                    /\ g.token_is_max_context[p[1]]
                    /\ p[2] - p[1] + 1 > pred_par.max_answer_length

\* C28: with exclude_cannotanswer = false compute_predictions_logits does
\* not raise and records one prediction, one n-best list and one score_diff
\* under the qas_id of every example of all_examples, also for an example
\* that has no feature.
C28_EveryExample ==
    (ppc # "start" /\ ~pred_par.exclude_cannotanswer) =>
        /\ ppc = "done"
        /\ Len(pred_out) = Len(all_examples)
        /\ \A k \in DOMAIN pred_out :
              /\ pred_out[k].qas_id = all_examples[k].qas_id
              /\ pred_out[k].has_prediction
              /\ pred_out[k].has_score_diff
              /\ pred_out[k].nbest # <<>>

\* two examples, the second without a feature, exclude_cannotanswer false:
\* the first example has its prediction, its n-best list and its score_diff
C28_Witness ==
    /\ ppc # "start"
    /\ ~pred_par.exclude_cannotanswer
    /\ Len(all_examples) = 2
    /\ WindowsOf([qas_id |-> 2]) = <<>>
    /\ Len(pred_out) >= 1
    /\ pred_out[1].qas_id = all_examples[1].qas_id
    /\ pred_out[1].has_prediction /\ pred_out[1].has_score_diff /\ pred_out[1].nbest # <<>>

(***************************************************************************)
(* Claims about the Example Builder.                                       *)
(***************************************************************************)
\* white space as the specification lists it: space, tab, CR, LF and U+202F
SpecWhitespace == {" ", "TAB", "CR", "LF", "U202F"}

\* the positions of the context at which a maximal run of non-white-space
\* characters starts
RunStarts(ctx) ==
    {i \in DOMAIN ctx : ctx[i] \notin SpecWhitespace /\ (i = 1 \/ ctx[i - 1] \in SpecWhitespace)}

\* C8: char_to_word_offset has exactly one entry per character of the
\* context, and the doc tokens are the maximal runs of non-white-space
\* characters of the context, in order: none is empty, none contains a
\* white space character, their concatenation is the context without its
\* white space, and there is one per run.
C8_DocTokens ==
    epc \in {"built", "raised"} =>
        /\ Len(quac_example.char_to_word_offset) = Len(context_text)
        /\ \A k \in DOMAIN quac_example.doc_tokens :
              /\ quac_example.doc_tokens[k] # <<>>
              /\ \A j \in DOMAIN quac_example.doc_tokens[k] :
                    quac_example.doc_tokens[k][j] \notin SpecWhitespace
        /\ Flatten(quac_example.doc_tokens)
             = SelectSeq(context_text, LAMBDA c : c \notin SpecWhitespace)
        /\ Len(quac_example.doc_tokens) = Cardinality(RunStarts(context_text))

\* C8 witness: a context with leading white space, a U+202F separator and
\* two tokens has been tokenized
C8_Witness ==
    /\ epc = "built"
    /\ context_text = <<" ", "a", "U202F", "b">>
    /\ quac_example.doc_tokens = << <<"a">>, <<"b">> >>
    /\ quac_example.char_to_word_offset = <<-1, 0, 0, 1>>

\* the number of doc tokens that start at or before character i (from 1)
TokensStartedBy(ctx, i) == Cardinality({j \in RunStarts(ctx) : j <= i})

\* character i (from 1) is white space with a doc token before it and a
\* doc token after it
BetweenTokens(ctx, i) ==
    /\ ctx[i] \in SpecWhitespace
    /\ \E j \in RunStarts(ctx) : j < i
    /\ \E j \in RunStarts(ctx) : j > i

\* C25: char_to_word_offset[i] is the index of the doc token that contains
\* character i when the character is not white space, and the index of the
\* doc token that follows it when the character is white space between
\* tokens; every entry is a valid index into doc_tokens.
C25_CharToWord ==
    epc \in {"built", "raised"} =>
        \A i \in DOMAIN context_text :
            /\ context_text[i] \notin SpecWhitespace =>
                  quac_example.char_to_word_offset[i] = TokensStartedBy(context_text, i) - 1
            /\ BetweenTokens(context_text, i) =>
                  quac_example.char_to_word_offset[i] = TokensStartedBy(context_text, i)
            /\ quac_example.char_to_word_offset[i] >= 0
            /\ quac_example.char_to_word_offset[i] < Len(quac_example.doc_tokens)

\* "a b" has been scanned: the space between the two tokens has the index
\* of the token before it
C25_Witness ==
    /\ epc = "built"
    /\ context_text = <<"a", " ", "b">>
    /\ quac_example.char_to_word_offset = <<0, 0, 1>>

\* the answer annotation of the record is malformed: a start_char that is
\* negative or at or past the end of the context, or an empty answer text
Malformed ==
    /\ ~is_impossible
    /\ ~IsNone(start_position_character)
    /\ ~IsNone(answer_text)
    /\ \/ ValueOf(start_position_character) < 0
       \/ ValueOf(start_position_character) >= Len(context_text)
       \/ ValueOf(answer_text) = <<>>

\* 0 or the index of a doc token
ValidPosition(p, doc_tokens) == p = 0 \/ (p >= 0 /\ p < Len(doc_tokens))

\* C20: constructing a QuacExample from a malformed answer annotation never
\* raises; the example is built with start_position and end_position at 0
\* or at another valid doc-token index.
C20_Malformed ==
    (epc # "start" /\ Malformed) =>
        /\ epc = "built"
        /\ ValidPosition(quac_example.start_position, quac_example.doc_tokens)
        /\ ValidPosition(quac_example.end_position, quac_example.doc_tokens)

\* a start_char of -1 is read from the end of char_to_word_offset and the
\* example is built
C20_Witness ==
    /\ epc = "built"
    /\ Malformed
    /\ start_position_character = Some(-1)
    /\ context_text = <<"a", " ", "b">>
    /\ quac_example.start_position = 1

(***************************************************************************)
(* Claims about _improve_answer_span.                                      *)
(***************************************************************************)
\* the sub-tokens new_start .. new_end (from 0) joined by spaces
SpanText(new_start, new_end) ==
    Join(TokStrings(SubSeq(ias_tokens, new_start + 1, new_end + 1)), <<" ">>)

\* the answer text tokenized and joined by spaces
AnswerTokText == Join(TokStrings(Tokenize(ias_answer)), <<" ">>)

\* the sub-span matches the answer
SpanMatches(new_start, new_end) ==
    /\ ias_start <= new_start /\ new_start <= new_end /\ new_end <= ias_end
    /\ SpanText(new_start, new_end) = AnswerTokText

\* the sub-span comes before the other in the scan: new_start ascending,
\* and for one new_start new_end from input_end down (longest first)
ScannedBefore(s1, e1, s2, e2) == s1 < s2 \/ (s1 = s2 /\ e1 > e2)

\* C23: _improve_answer_span returns the first sub-span of the scan (for
\* each new_start from input_start up, new_end from input_end down, the
\* longest candidate first) whose space-joined tokens equal the space-joined
\* tokenization of the answer text; it returns (input_start, input_end) when
\* no sub-span matches; the span returned lies within [input_start, input_end].
C23_ImproveSpan ==
    ipc = "done" =>
        /\ ias_start <= ias_out[1] /\ ias_out[1] <= ias_out[2] /\ ias_out[2] <= ias_end
        /\ IF \E s, e \in ias_start .. ias_end : SpanMatches(s, e)
           THEN /\ SpanMatches(ias_out[1], ias_out[2])
                /\ \A s, e \in ias_start .. ias_end :
                      (SpanMatches(s, e) /\ <<s, e>> # ias_out)
                          => ScannedBefore(ias_out[1], ias_out[2], s, e)
           ELSE ias_out = <<ias_start, ias_end>>

\* the answer "a" occurs twice in the span "a . a": the first is returned
C23_Witness ==
    /\ ipc = "done"
    /\ TokStrings(ias_tokens) = << <<"a">>, <<".">>, <<"a">> >>
    /\ ias_start = 0 /\ ias_end = 2
    /\ ias_answer = <<"a">>
    /\ ias_out = <<0, 0>>

(***************************************************************************)
(* Claims about quac_convert_example_to_features.                          *)
(***************************************************************************)
\* every feature built from the examples: the lists the pool returns
BuiltFeatures == Flatten(pool_features)

\* the positions (from 0) of input_ids that hold the document sub-tokens of
\* the window: the keys of token_to_orig_map count from the first token that
\* is not padding, so under left padding they are shifted by the padding
DocPositions(f) ==
    LET shift == IF f.input_ids[1] = PAD THEN Len(f.input_ids) - Len(f.tokens) ELSE 0
    IN  {p + shift : p \in DOMAIN f.token_to_orig_map}

\* C17: in every feature, under both padding sides, p_mask is 0 at
\* cls_index and at every position of a document sub-token, and 1 at every
\* other position (question tokens, padding, the other special tokens).
C17_PMask ==
    cpc = "done" =>
        \A k \in DOMAIN BuiltFeatures :
            LET f == BuiltFeatures[k]
            IN  \A i \in DOMAIN f.input_ids :
                    f.p_mask[i] = IF i - 1 = f.cls_index \/ (i - 1) \in DocPositions(f)
                                  THEN 0 ELSE 1

\* C17 witness: a right-padded feature with padding whose padding positions
\* all have p_mask 1
C17_Witness ==
    /\ cpc = "done"
    /\ conv_cfg.padding_side = "right"
    /\ \E k \in DOMAIN BuiltFeatures :
          LET f == BuiltFeatures[k]
          IN  /\ \E i \in DOMAIN f.input_ids : f.input_ids[i] = PAD
              /\ \A i \in DOMAIN f.input_ids : f.input_ids[i] = PAD => f.p_mask[i] = 1

(***************************************************************************)
(* Claims about quac_convert_examples_to_features.                         *)
(***************************************************************************)
\* the windows of an example and its gold sub-token span, as the converter
\* computes them before the loop that builds the features
DocSpans(ex, cfg) ==
    LET all_doc_tokens == Flatten(SubTokensOf(ex.doc_tokens))
    IN  SpanLoop(all_doc_tokens, TokToOrigIndex(SubTokensOf(ex.doc_tokens)),
                 EncodeQuery(ex.question_text, cfg.max_query_length), cfg, <<>>,
                 all_doc_tokens)

GoldTokSpan(ex) ==
    LET subs == SubTokensOf(ex.doc_tokens)
        tok_start == PyIndex(OrigToTokIndex(subs), ex.start_position)
        tok_end   == IF ex.end_position < Len(ex.doc_tokens) - 1
                     THEN PyIndex(OrigToTokIndex(subs), ex.end_position + 1) - 1
                     ELSE Len(Flatten(subs)) - 1
    IN  _improve_answer_span(Flatten(subs), tok_start, tok_end, ValueOf(ex.answer_text))

\* the window holds the whole gold span
HoldsGold(w, gold) == gold[1] >= w.start /\ gold[2] <= w.start + w.length - 1

C29_ImpossibleAtCls ==
    cpc = "done" =>
        \A i \in DOMAIN pool_features :
            \A k \in DOMAIN pool_features[i] :
                pool_features[i][k].is_impossible =>
                    /\ pool_features[i][k].start_position = pool_features[i][k].cls_index
                    /\ pool_features[i][k].end_position = pool_features[i][k].cls_index

\* an impossible example and a window without the gold span of an
\* answerable example, both with their positions at cls_index
C29_Witness ==
    /\ cpc = "done"
    /\ \E i \in DOMAIN examples :
          /\ examples[i].is_impossible
          /\ pool_features[i] # <<>>
          /\ pool_features[i][1].is_impossible
          /\ pool_features[i][1].start_position = pool_features[i][1].cls_index
          /\ pool_features[i][1].end_position = pool_features[i][1].cls_index
    /\ \E i \in DOMAIN examples :
          /\ ~examples[i].is_impossible
          /\ \E k \in DOMAIN pool_features[i] :
                /\ pool_features[i][k].is_impossible
                /\ pool_features[i][k].start_position = pool_features[i][k].cls_index
                /\ pool_features[i][k].end_position = pool_features[i][k].cls_index

\* C30: every feature emitted with is_impossible false has start_position <=
\* end_position, both positions are keys of its token_to_orig_map, and
\* p_mask is 0 at both positions.
C30_AnswerPositions ==
    cpc = "done" =>
        \A i \in DOMAIN pool_features :
            \A k \in DOMAIN pool_features[i] :
                LET f == pool_features[i][k]
                IN  ~f.is_impossible =>
                        /\ f.start_position <= f.end_position
                        /\ f.start_position \in DOMAIN f.token_to_orig_map
                        /\ f.end_position \in DOMAIN f.token_to_orig_map
                        /\ PyInRange(f.p_mask, f.start_position)
                        /\ PyInRange(f.p_mask, f.end_position)
                        /\ PyIndex(f.p_mask, f.start_position) = 0
                        /\ PyIndex(f.p_mask, f.end_position) = 0

\* an answerable feature of a right-padded window whose positions are two
\* different keys of token_to_orig_map with p_mask 0
C30_Witness ==
    /\ cpc = "done"
    /\ conv_cfg.padding_side = "right"
    /\ \E i \in DOMAIN pool_features :
          \E k \in DOMAIN pool_features[i] :
              LET f == pool_features[i][k]
              IN  /\ ~f.is_impossible
                  /\ f.start_position < f.end_position
                  /\ f.start_position \in DOMAIN f.token_to_orig_map
                  /\ f.end_position \in DOMAIN f.token_to_orig_map
                  /\ PyIndex(f.p_mask, f.start_position) = 0
                  /\ PyIndex(f.p_mask, f.end_position) = 0

\* the windows of example i as [start, length]: the start the converter
\* gave the window, the paragraph_len its feature carries
WindowsBuilt(i) ==
    [k \in DOMAIN pool_features[i] |->
        [start  |-> DocSpans(examples[i], conv_cfg)[k].start,
         length |-> pool_features[i][k].paragraph_len]]

\* L, the number of sub-tokens of the document of example i, and C, the
\* window capacity
DocLen(i) == Len(Flatten(SubTokensOf(examples[i].doc_tokens)))
Capacity(i) ==
    conv_cfg.max_seq_length
        - Len(EncodeQuery(examples[i].question_text, conv_cfg.max_query_length))
        - sequence_pair_added_tokens

\* window k = 0, 1, 2, ... up to and including the first that reaches the end
RECURSIVE WindowsToTheEnd(_, _, _, _)
WindowsToTheEnd(L, stride, C, k) ==
    IF L = 0 THEN <<>>
    ELSE LET w == [start |-> k * stride, length |-> Min(L - k * stride, C)]
         IN  IF w.start + w.length = L THEN <<w>>
             ELSE <<w>> \o WindowsToTheEnd(L, stride, C, k + 1)

\* window k = 0, 1, 2, ... while k * stride < L, up to and including the
\* first that reaches the end
RECURSIVE WindowsWhileInside(_, _, _, _)
WindowsWhileInside(L, stride, C, k) ==
    IF ~(k * stride < L) THEN <<>>
    ELSE LET w == [start |-> k * stride, length |-> Min(L - k * stride, C)]
         IN  IF w.start + w.length = L THEN <<w>>
             ELSE <<w>> \o WindowsWhileInside(L, stride, C, k + 1)

\* every sub-token index lies in a window
AllCovered(ws, L) ==
    \A p \in 0 .. (L - 1) :
        \E k \in DOMAIN ws : ws[k].start <= p /\ p < ws[k].start + ws[k].length

\* C21 as stated: the windows are window k at k * doc_stride of length
\* min(L - k * doc_stride, C) for k = 0, 1, ... up to and including the first
\* window that reaches the end of the document, and for doc_stride <= C every
\* sub-token index lies in a window.
C21_Original ==
    cpc = "done" =>
        \A i \in DOMAIN examples :
            /\ WindowsBuilt(i)
                 = WindowsToTheEnd(DocLen(i), conv_cfg.doc_stride, Capacity(i), 0)
            /\ conv_cfg.doc_stride <= Capacity(i) => AllCovered(WindowsBuilt(i), DocLen(i))

\* C21, amended: the windows are window k at k * doc_stride of length
\* min(L - k * doc_stride, C) for k = 0, 1, ... while k * doc_stride < L, up
\* to and including the first window that reaches the end of the document;
\* for doc_stride <= C the last window reaches the end and every sub-token
\* index lies in a window.
C21_Windows ==
    cpc = "done" =>
        \A i \in DOMAIN examples :
            LET ws == WindowsBuilt(i)
            IN  /\ ws = WindowsWhileInside(DocLen(i), conv_cfg.doc_stride, Capacity(i), 0)
                /\ conv_cfg.doc_stride <= Capacity(i) =>
                      /\ AllCovered(ws, DocLen(i))
                      /\ ws # <<>> => ws[Len(ws)].start + ws[Len(ws)].length = DocLen(i)

\* a document of five sub-tokens cut into four overlapping windows of two
C21_Witness ==
    /\ cpc = "done"
    /\ conv_cfg.doc_stride = 1
    /\ \E i \in DOMAIN examples :
          /\ DocLen(i) = 5 /\ Capacity(i) = 2
          /\ WindowsBuilt(i) = <<[start |-> 0, length |-> 2], [start |-> 1, length |-> 2],
                                 [start |-> 2, length |-> 2], [start |-> 3, length |-> 2]>>

\* the score of a window for a position it covers,
\* min(left context, right context) + 0.01 * length, in hundredths
WindowScore(w, p) == 100 * Min(p - w.start, w.start + w.length - 1 - p) + w.length

\* the windows (from 1) that cover position p
CoveringWindows(ws, p) ==
    {k \in DOMAIN ws : ws[k].start <= p /\ p <= ws[k].start + ws[k].length - 1}

\* the covering window with the greatest score, the earliest on equal scores
BestWindow(ws, p) ==
    CHOOSE k \in CoveringWindows(ws, p) :
        \A j \in CoveringWindows(ws, p) :
            \/ WindowScore(ws[k], p) > WindowScore(ws[j], p)
            \/ WindowScore(ws[k], p) = WindowScore(ws[j], p) /\ k <= j

\* the flag feature k of example i carries for document position p
MaxContextFlag(i, k, p) ==
    LET j == p - DocSpans(examples[i], conv_cfg)[k].start
    IN  pool_features[i][k].token_is_max_context[
            IF conv_cfg.padding_side = "left" THEN j
            ELSE pool_features[i][k].query_end + j]

\* C22: for every position covered by a window, _new_check_is_max_context
\* is true for exactly one window, the covering window with the greatest
\* score min(left, right) + 0.01 * length, the earliest on equal scores, and
\* false for every other window, covering or not; the flags of the features
\* say the same, and a single window flags every position it holds.
C22_MaxContext ==
    cpc = "done" =>
        \A i \in DOMAIN examples :
            LET ws == DocSpans(examples[i], conv_cfg)
            IN  \A p \in 0 .. (DocLen(i) - 1) :
                    CoveringWindows(ws, p) # {} =>
                        /\ \A k \in DOMAIN ws :
                              _new_check_is_max_context(ws, k - 1, p) <=> k = BestWindow(ws, p)
                        /\ \A k \in CoveringWindows(ws, p) :
                              MaxContextFlag(i, k, p) <=> k = BestWindow(ws, p)
                        /\ Len(ws) = 1 => MaxContextFlag(i, 1, p)

\* position 1 is covered by the windows [0, 2) and [1, 3) with equal scores:
\* the first is flagged, the second is not
C22_Witness ==
    /\ cpc = "done"
    /\ \E i \in DOMAIN examples :
          LET ws == DocSpans(examples[i], conv_cfg)
          IN  /\ Len(ws) >= 2
              /\ CoveringWindows(ws, 1) = {1, 2}
              /\ WindowScore(ws[1], 1) = WindowScore(ws[2], 1)
              /\ MaxContextFlag(i, 1, 1)
              /\ ~MaxContextFlag(i, 2, 1)

ResultIndexFor(fs, i) ==

    CHOOSE j \in DOMAIN fs :
        /\ fs[j].unique_id = fs[i].unique_id
        /\ \A k \in DOMAIN fs : fs[k].unique_id = fs[i].unique_id => k <= j

\* C6: every returned feature carries the example_index of the example it
\* was built from, no two returned features have the same unique_id, and so
\* the look-up of a result by unique_id gives each window its own result.
C6_Bookkeeping ==
    cpc = "done" =>
        /\ \A i \in DOMAIN features :
              /\ features[i].example_index + 1 \in DOMAIN examples
              /\ examples[features[i].example_index + 1].qas_id = features[i].qas_id
        /\ \A i, j \in DOMAIN features :
              i # j => features[i].unique_id # features[j].unique_id
        /\ \A i \in DOMAIN features : ResultIndexFor(features, i) = i

\* C7: the returned list holds every window feature of every one of the n
\* examples, in order.
C7_AllExamples ==
    cpc = "done" => features = Flatten(pool_features)

(***************************************************************************)
(* Claims about the worker pool.                                           *)
(***************************************************************************)
\* the features of example i as one call on the example and the parameters
\* computes them
FeaturesAlone(i) == quac_convert_example_to_features(pw_examples[i], pw_cfg)

\* C26: the features of each example are the same for every number of
\* workers and every interleaving: every result sent back is what the
\* conversion of that example alone gives, a worker that holds a chunk has
\* its tokenizer installed, and the list collected holds the results of the
\* examples in input order, all of them once the pool is done.
C26_PoolOrder ==
    pwc # "idle" =>
        /\ \A i \in DOMAIN pw_results : pw_results[i] = FeaturesAlone(i)
        /\ \A w \in DOMAIN pw_job : ~IsNone(pw_job[w]) => pw_tokenizer[w] = TokenizerHandle
        /\ Len(pw_out) <= Len(pw_examples)
        /\ \A i \in DOMAIN pw_out : pw_out[i] = FeaturesAlone(i).features
        /\ pwc = "done" => Len(pw_out) = Len(pw_examples)

\* two workers, three examples: the second chunk was finished before the
\* first, and the list collected is complete
C26_Witness ==
    /\ pwc = "done"
    /\ Len(pw_tokenizer) = 2
    /\ Len(pw_examples) = 3
    /\ pw_finished[1] = 2
    /\ pw_out[1] # pw_out[2]

(***************************************************************************)
(* Claims about the window loop.                                           *)
(***************************************************************************)
\* ceil(L / doc_stride)
MaxIterations == (Len(lp_doc) + lp_cfg.doc_stride - 1) \div lp_cfg.doc_stride

\* C27: the window loop terminates for every document length L >= 0, every
\* doc_stride >= 1 and every window capacity >= 1, after at most
\* ceil(L / doc_stride) iterations (one span is appended per iteration), and
\* for L = 0 it ends without a window.
C27_LoopTerminates ==
    /\ <>(lpc = "done")
    /\ [](Len(lp_spans) <= MaxIterations)
    /\ []((lpc = "done" /\ lp_doc = <<>>) => lp_spans = <<>>)

\* five sub-tokens, stride 1, capacity 1: the loop has ended after five
\* iterations
C27_Witness ==
    /\ lpc = "done"
    /\ Len(lp_doc) = 5
    /\ lp_cfg.doc_stride = 1
    /\ lp_cfg.max_seq_length = 5
    /\ Len(lp_spans) = 5

====
